---- MODULE Spec2Model ----
(***************************************************************************)
(* ZotWatch: the item store (ProfileStorage over SQLite), the profile      *)
(* build flow (ProfileBuilder.run) and the two rankers (WorkRanker,        *)
(* ProfileRanker).                                                         *)
(*                                                                         *)
(* The items table is a sequence of rows in rowid order: a table scan      *)
(* returns the rows in that order, an INSERT appends, and ON CONFLICT DO   *)
(* UPDATE and UPDATE keep a row's place.  CURRENT_TIMESTAMP has a          *)
(* resolution of one second, so the clock `now` counts seconds and several *)
(* writes can carry the same updated_at.                                   *)
(***************************************************************************)
EXTENDS Integers, Sequences, FiniteSets, TLC

\* SQL NULL and Python None, for a column or a hash.
None == "None"

\* A value that may be missing (a file, a local not yet assigned): no element
\* or one.
Absent == <<>>

Some(value) == <<value>>

(***************************************************************************)
(* Bounds.                                                                 *)
(***************************************************************************)
\* The clock runs over 0..MaxClock seconds.
MaxClock == 1

\* Item keys of the library.
Keys == {"k1", "k2"}

\* The ZoteroItem values ingestion writes (version, title; the title stands
\* for the text that content_for_embedding() returns).
ItemValues ==
  { [version |-> 1, title |-> "t1"],
    [version |-> 2, title |-> "t2"] }

\* The digest ingestion passes for an item's text.
HashOf(title) == IF title = "t1" THEN "h1" ELSE "h2"

\* The upsert_item calls of the bounded library, <<key, item, content_hash>>:
\* k1 is edited between the two item values and is written with its digest
\* or with content_hash left at its default None; k2 keeps one item value.
UpsertArgs ==
  UNION { { <<"k1", item, HashOf(item.title)>>, <<"k1", item, None>> } :
          item \in ItemValues }
  \cup { <<"k2", [version |-> 1, title |-> "t1"], "h1">> }

\* rank() is handed at most MaxCandidates candidates.
MaxCandidates == 3

\* The candidates the sources deliver.  similarity is what index.search
\* answers for the candidate's text and if_score what the journal scorer
\* answers, both in thousandths; published is the publication day relative
\* to the day of the ranking run (negative: in the past), or Absent.
CandidateWorks ==
  { [identifier |-> "w1", source |-> "arxiv", similarity |-> 910,
     if_score |-> 0, published |-> Some(0 - 2), metrics |-> <<>>,
     authors |-> <<"Ada">>, venue |-> None],
    [identifier |-> "w2", source |-> "crossref", similarity |-> 400,
     if_score |-> 500, published |-> Some(0 - 40), metrics |-> [cited_by |-> 3],
     authors |-> <<"bob">>, venue |-> "Nature"],
    [identifier |-> "w3", source |-> "crossref", similarity |-> 910,
     if_score |-> 0, published |-> Absent,
     metrics |-> ("is-referenced-by" :> 1),
     authors |-> <<>>, venue |-> ""],
    [identifier |-> "w4", source |-> "biorxiv", similarity |-> 700,
     if_score |-> 1000, published |-> Some(1), metrics |-> [cited_by |-> 0],
     authors |-> <<"", "ada">>, venue |-> "nature"] }

\* settings.scoring.weights, in thousandths.
WeightChoices ==
  { [similarity |-> 1000, recency |-> 0, citations |-> 0, author_bonus |-> 0,
     venue_bonus |-> 0],
    [similarity |-> 600, recency |-> 200, citations |-> 100, author_bonus |-> 50,
     venue_bonus |-> 50] }

\* settings.scoring.thresholds, in millionths (the unit of a score); the
\* configuration does not order the two.
ThresholdChoices ==
  { [must_read |-> m, consider |-> c] :
      m \in {800000, 500000}, c \in {500000, 900000} }

\* The scoring section of config.yaml.
ScoringChoices ==
  { [weights |-> w, thresholds |-> t,
     decay_days |-> [fast |-> 3, medium |-> 7, slow |-> 30],
     whitelist_authors |-> <<"ADA">>, whitelist_venues |-> <<"Nature">>] :
      w \in WeightChoices, t \in ThresholdChoices }

\* The settings of the runs that only build the profile.
DefaultScoring ==
  CHOOSE sc \in ScoringChoices :
    sc.weights.recency = 0 /\ sc.thresholds = [must_read |-> 800000, consider |-> 500000]

VARIABLES
  rows,            \* the items table, in rowid order
  now,             \* CURRENT_TIMESTAMP, in seconds
  written,         \* history: the keys of the rows, in the order of their last write
  pc,              \* position of ProfileBuilder.run
  full,            \* run(full=...)
  item_count,      \* len(items) of the running build
  items_to_embed,  \* the items the running build embeds
  encoded,         \* Some(the texts handed to vectorizer.encode in this run)
  next_i,          \* position of the set_embedding loop
  faiss_index,     \* the saved index artifact: Some(its rows), or Absent
  profile_json,    \* the saved profile summary, or Absent
  settings,        \* settings.scoring: weights, thresholds, decay_days, whitelists
  candidates,      \* the candidate list handed to rank()
  ranked,          \* the list the last rank() returned
  ranked_by,       \* the ranker that returned it: "none", "work", "profile";
                   \* "raised" when constructing the ranker raised
  rank_encoded,    \* Some(the texts the last rank() handed to the provider)
  provider_seen,   \* history: the texts earlier rank() calls handed to it
  call_args,       \* Some(the arguments of a scoring function under test)
  call_result,     \* Some(what it returned for them)
  loaded_index,    \* Some(the index file content the last ranker read)
  retry_call,      \* Some(the state of a call through with_retry)
  s2,              \* Some(a SemanticScholarClient and the call it is in)
  scraper          \* Some(an AbstractScraper.fetch_batch call)

storeVars == <<rows, now, written>>
buildVars == <<pc, full, item_count, items_to_embed, encoded, next_i>>
artifactVars == <<faiss_index, profile_json>>
rankVars == <<settings, candidates, ranked, ranked_by, rank_encoded, provider_seen>>
callVars == <<call_args, call_result>>
loadVars == <<loaded_index>>
retryVars == <<retry_call>>
enrichVars == <<s2, scraper>>
vars == <<rows, now, written, pc, full, item_count, items_to_embed, encoded, next_i,
          faiss_index, profile_json, settings, candidates, ranked, ranked_by,
          rank_encoded, provider_seen, call_args, call_result, loaded_index,
          retry_call, s2, scraper>>

(***************************************************************************)
(* ProfileStorage                                                          *)
(***************************************************************************)
\* Position of the row with this key, 0 when there is none.
RowOf(table, key) ==
  IF \E i \in 1..Len(table) : table[i].key = key
    THEN CHOOSE i \in 1..Len(table) : table[i].key = key
    ELSE 0

KeysOf(table) == { table[i].key : i \in 1..Len(table) }

\* Mutant: INSERT OR REPLACE, the old row is deleted and a new one inserted.
upsert_item_replace(table, key, item, content_hash, ts) ==
  Append(SelectSeq(table, LAMBDA r : r.key # key),
         [key |-> key,
          version |-> item.version,
          title |-> item.title,
          content_hash |-> content_hash,
          embedding |-> None,
          embedding_hash |-> None,
          updated_at |-> ts])

upsert_item(table, key, item, content_hash, ts) ==
  LET i == RowOf(table, key) IN
  IF i = 0
    THEN Append(table, [key |-> key,
                        version |-> item.version,
                        title |-> item.title,
                        content_hash |-> content_hash,
                        embedding |-> None,
                        embedding_hash |-> None,
                        updated_at |-> ts])
    ELSE [table EXCEPT ![i] = [@ EXCEPT !.version = item.version,
                                        !.title = item.title,
                                        !.content_hash = content_hash,
                                        !.updated_at = ts]]

\* Mutant: DELETE ... WHERE key = ?, with one of the keys.
remove_items_one_key(table, keys) ==
  IF keys = {}
    THEN table
    ELSE SelectSeq(table, LAMBDA r : r.key # (CHOOSE k \in keys : TRUE))

remove_items(table, keys) ==
  IF keys = {}
    THEN table
    ELSE SelectSeq(table, LAMBDA r : r.key \notin keys)

\* Mutant: embedding_hash is taken from the row's content_hash, not from the
\* argument.
set_embedding_current_hash(table, key, vector, embedding_hash, ts) ==
  LET i == RowOf(table, key) IN
  IF i = 0
    THEN table
    ELSE [table EXCEPT ![i] = [@ EXCEPT !.embedding = vector,
                                        !.embedding_hash = table[i].content_hash,
                                        !.updated_at = ts]]

\* Mutant: UPDATE without WHERE key = ?.
set_embedding_every_row(table, key, vector, embedding_hash, ts) ==
  [i \in 1..Len(table) |-> [table[i] EXCEPT !.embedding = vector,
                                            !.embedding_hash = embedding_hash,
                                            !.updated_at = ts]]

set_embedding(table, key, vector, embedding_hash, ts) ==
  LET i == RowOf(table, key) IN
  IF i = 0
    THEN table
    ELSE [table EXCEPT ![i] = [@ EXCEPT !.embedding = vector,
                                        !.embedding_hash = embedding_hash,
                                        !.updated_at = ts]]

\* _row_to_item: the ZoteroItem of a row (the embedding columns are dropped).
row_to_item(r) ==
  [key |-> r.key, version |-> r.version, title |-> r.title,
   content_hash |-> r.content_hash]

MapItems(table) == [i \in 1..Len(table) |-> row_to_item(table[i])]

iter_items(table) == MapItems(table)

\* SQL a != b: true only when both operands are non-NULL and differ.
SqlNotEqual(a, b) == a # None /\ b # None /\ a # b

\* The WHERE clause of fetch_items_needing_embedding and of
\* count_items_needing_embedding.
NeedsEmbedding(r) ==
  \/ r.embedding = None
  \/ r.embedding_hash = None
  \/ SqlNotEqual(r.embedding_hash, r.content_hash)

\* ORDER BY updated_at ASC: rows with equal updated_at stay in scan order.
RECURSIVE InsertByUpdatedAt(_, _)
InsertByUpdatedAt(sorted, r) ==
  IF sorted = <<>>
    THEN <<r>>
    ELSE IF sorted[Len(sorted)].updated_at <= r.updated_at
      THEN Append(sorted, r)
      ELSE Append(InsertByUpdatedAt(SubSeq(sorted, 1, Len(sorted) - 1), r),
                  sorted[Len(sorted)])

RECURSIVE OrderByUpdatedAt(_)
OrderByUpdatedAt(table) ==
  IF table = <<>>
    THEN <<>>
    ELSE InsertByUpdatedAt(OrderByUpdatedAt(SubSeq(table, 1, Len(table) - 1)),
                           table[Len(table)])

\* Mutant: no ORDER BY.
fetch_items_needing_embedding_unordered(table) ==
  MapItems(SelectSeq(table, NeedsEmbedding))

fetch_items_needing_embedding(table) ==
  MapItems(OrderByUpdatedAt(SelectSeq(table, NeedsEmbedding)))

count_items_needing_embedding(table) ==
  Len(SelectSeq(table, NeedsEmbedding))

\* Mutant: no WHERE embedding IS NOT NULL.
fetch_all_embeddings_unfiltered(table) ==
  [i \in 1..Len(table) |-> <<table[i].key, table[i].embedding>>]

fetch_all_embeddings(table) ==
  LET withEmbedding == SelectSeq(table, LAMBDA r : r.embedding # None) IN
  [i \in 1..Len(withEmbedding) |->
     <<withEmbedding[i].key, withEmbedding[i].embedding>>]

(***************************************************************************)
(* The embedding provider and the item text                                *)
(***************************************************************************)
content_for_embedding(item) == item.title

\* A deterministic provider: one vector per text.
EncodeText(text) == IF text = "t1" THEN "v1" ELSE "v2"

encode(texts) == [i \in 1..Len(texts) |-> EncodeText(texts[i])]

(***************************************************************************)
(* Scoring: WorkRanker and ProfileRanker                                   *)
(* Similarities, components and weights are in thousandths, scores and     *)
(* thresholds in millionths.                                               *)
(***************************************************************************)
\* str.lower() on the names of the bounded configuration.
Lower(value) ==
  CASE value = "Ada" -> "ada"
    [] value = "ADA" -> "ada"
    [] value = "Nature" -> "nature"
    [] value = "bioRxiv" -> "biorxiv"
    [] OTHER -> value

\* _bonus(values, whitelist)
bonus(values, whitelist) ==
  LET whitelist_lower == { Lower(whitelist[i]) : i \in 1..Len(whitelist) } IN
  IF \E i \in 1..Len(values) :
       values[i] # "" /\ Lower(values[i]) \in whitelist_lower
    THEN 1000
    ELSE 0

\* decay.get(name, default) on settings.scoring.decay_days
decay_get(decay, name, default) ==
  IF name \in DOMAIN decay THEN decay[name] ELSE default

\* Mutant: the slow window is tested first.
compute_recency_slow_first(published, scoring) ==
  IF published = Absent
    THEN 0
    ELSE LET age == 0 - published[1]
             delta_days == IF age > 0 THEN age ELSE 0
             decay == scoring.decay_days
         IN IF delta_days <= decay_get(decay, "slow", 30) THEN 400
            ELSE IF delta_days <= decay_get(decay, "medium", 7) THEN 700
            ELSE IF delta_days <= decay_get(decay, "fast", 3) THEN 1000
            ELSE 100

\* _compute_recency(published, settings)
compute_recency(published, scoring) ==
  IF published = Absent
    THEN 0
    ELSE LET age == 0 - published[1]
             delta_days == IF age > 0 THEN age ELSE 0
             decay == scoring.decay_days
         IN IF delta_days <= decay_get(decay, "fast", 3) THEN 1000
            ELSE IF delta_days <= decay_get(decay, "medium", 7) THEN 700
            ELSE IF delta_days <= decay_get(decay, "slow", 30) THEN 400
            ELSE 100

\* float("-inf"), in thousandths: below every finite component.
MinusInfinity == 0 - 1000000000

\* np.log1p on the citation counts of the bounded candidates, in thousandths.
log1p(n) ==
  CASE n = 0 - 1 -> MinusInfinity
    [] n = 0 -> 0
    [] n = 1 -> 693
    [] n = 2 -> 1099
    [] n = 3 -> 1386
    [] OTHER -> 1609

\* Mutant: "is-referenced-by" is read before "cited_by".
compute_citation_score_referenced_first(candidate) ==
  LET metrics == candidate.metrics
      citations ==
        IF "is-referenced-by" \in DOMAIN metrics THEN metrics["is-referenced-by"]
        ELSE IF "cited_by" \in DOMAIN metrics
          THEN metrics["cited_by"]
          ELSE 0
  IN IF citations # 0 THEN log1p(citations) ELSE 0

\* _compute_citation_score(candidate)
compute_citation_score(candidate) ==
  LET metrics == candidate.metrics
      citations ==
        IF "cited_by" \in DOMAIN metrics THEN metrics["cited_by"]
        ELSE IF "is-referenced-by" \in DOMAIN metrics
          THEN metrics["is-referenced-by"]
          ELSE 0
  IN IF citations # 0 THEN log1p(citations) ELSE 0

\* distances, _ = self.index.search(vectors, top_k=1); float(distance[0])
search_top1(candidate) == candidate.similarity

\* self._journal_scorer.compute_score(candidate)[0]
compute_score(candidate) == candidate.if_score

\* Mutant: the consider threshold is tested first.
label_for_consider_first(score, thresholds) ==
  IF score >= thresholds.consider THEN "consider"
  ELSE IF score >= thresholds.must_read THEN "must_read"
  ELSE "ignore"

\* label = "ignore"; if score >= must_read: ...; elif score >= consider: ...
label_for(score, thresholds) ==
  IF score >= thresholds.must_read THEN "must_read"
  ELSE IF score >= thresholds.consider THEN "consider"
  ELSE "ignore"

\* The RankedWork WorkRanker.rank appends for a candidate.
WorkRanked(candidate, scoring) ==
  LET weights == scoring.weights
      similarity == search_top1(candidate)
      recency_score == compute_recency(candidate.published, scoring)
      citation_score == compute_citation_score(candidate)
      author_bonus == bonus(candidate.authors, scoring.whitelist_authors)
      venue_bonus ==
        bonus(IF candidate.venue # None /\ candidate.venue # ""
                THEN <<candidate.venue>> ELSE <<>>,
              scoring.whitelist_venues)
      score == similarity * weights.similarity
               + recency_score * weights.recency
               + citation_score * weights.citations
               + author_bonus * weights.author_bonus
               + venue_bonus * weights.venue_bonus
  IN [candidate |-> candidate,
      score |-> score,
      similarity |-> similarity,
      recency_score |-> recency_score,
      metric_score |-> citation_score,
      author_bonus |-> author_bonus,
      venue_bonus |-> venue_bonus,
      impact_factor_score |-> 0,
      label |-> label_for(score, scoring.thresholds)]

\* The RankedWork ProfileRanker.rank appends for a candidate.
ProfileRanked(candidate, scoring) ==
  LET similarity == search_top1(candidate)
      if_score == compute_score(candidate)
      score == 800 * similarity + 200 * if_score
  IN [candidate |-> candidate,
      score |-> score,
      similarity |-> similarity,
      recency_score |-> 0,
      metric_score |-> 0,
      author_bonus |-> 0,
      venue_bonus |-> 0,
      impact_factor_score |-> if_score,
      label |-> label_for(score, scoring.thresholds)]

\* list.sort(key=score, reverse=True) is stable: works of equal score stay in
\* their order.
RECURSIVE InsertByScore(_, _)
InsertByScore(sorted, w) ==
  IF sorted = <<>>
    THEN <<w>>
    ELSE IF sorted[Len(sorted)].score >= w.score
      THEN Append(sorted, w)
      ELSE Append(InsertByScore(SubSeq(sorted, 1, Len(sorted) - 1), w),
                  sorted[Len(sorted)])

RECURSIVE SortedByScore(_)
SortedByScore(works) ==
  IF works = <<>>
    THEN <<>>
    ELSE InsertByScore(SortedByScore(SubSeq(works, 1, Len(works) - 1)),
                       works[Len(works)])

\* Mutant: the list is returned in the order of the candidates.
sort_by_score_skipped(works) == works

\* ranked.sort(key=lambda w: w.score, reverse=True)
sort_by_score(works) == SortedByScore(works)

\* WorkRanker.rank(candidates)
WorkRanker_rank(works, scoring) ==
  IF works = <<>>
    THEN <<>>
    ELSE sort_by_score([i \in 1..Len(works) |-> WorkRanked(works[i], scoring)])

\* ProfileRanker.rank(candidates)
ProfileRanker_rank(works, scoring) ==
  IF works = <<>>
    THEN <<>>
    ELSE sort_by_score([i \in 1..Len(works) |-> ProfileRanked(works[i], scoring)])

\* CandidateWork.content_for_embedding()
candidate_content(candidate) == candidate.identifier

\* Mutant: the provider is called for an empty list too.
rank_encode_always(works) ==
  Some([i \in 1..Len(works) |-> candidate_content(works[i])])

\* if not candidates: return []; otherwise texts = [c.content_for_embedding()
\* for c in candidates] go to self.vectorizer.encode: Some(texts), or Absent
\* when the provider is not called.
rank_encode(works) ==
  IF works = <<>>
    THEN Absent
    ELSE Some([i \in 1..Len(works) |-> candidate_content(works[i])])

\* FaissIndex.load(index_path) raises when the artifact is absent.
faiss_load_raises(artifact) == artifact = Absent

\* Mutant: a missing profile JSON is read as an empty profile.
load_profile_lenient(artifact) == FALSE

\* WorkRanker._load_profile raises FileNotFoundError when the JSON is absent.
load_profile_raises(artifact) == artifact = Absent

\* WorkRanker.__init__: the index is loaded, then the profile.
WorkRanker_init_raises(index_file, profile_file) ==
  faiss_load_raises(index_file) \/ load_profile_raises(profile_file)

\* ProfileRanker.__init__: the index is loaded.
ProfileRanker_init_raises(index_file) == faiss_load_raises(index_file)

(***************************************************************************)
(* State after construction                                                *)
(***************************************************************************)
StoreInit ==
  /\ rows = <<>>
  /\ now = 0
  /\ written = <<>>
  /\ pc = "idle"
  /\ full = FALSE
  /\ item_count = 0
  /\ items_to_embed = <<>>
  /\ encoded = Absent
  /\ next_i = 1
  /\ faiss_index = Absent
  /\ profile_json = Absent

\* The content of data/faiss.index while index.save is writing it: the first
\* n vectors of the new index and no more.
Truncated == "truncated"

TruncatedAt(vectors, n) == Some(Append(SubSeq(vectors, 1, n), Truncated))

\* The file holds a whole saved index (or is not there).
IsCompleteIndex(file) ==
  file = Absent \/ \A i \in 1..Len(file[1]) : file[1][i] # Truncated

\* No ranking run yet.
RankIdle ==
  /\ candidates = <<>>
  /\ ranked = <<>>
  /\ ranked_by = "none"
  /\ rank_encoded = Absent
  /\ provider_seen = {}

\* No scoring function is under test, no ranker is constructed and no call
\* goes through with_retry.
CallIdle ==
  /\ call_args = Absent
  /\ call_result = Absent
  /\ loaded_index = Absent
  /\ retry_call = Absent
  /\ s2 = Absent
  /\ scraper = Absent

Init ==
  /\ StoreInit
  /\ settings = DefaultScoring
  /\ RankIdle
  /\ CallIdle

(***************************************************************************)
(* ProfileBuilder.run without a concurrent writer                          *)
(***************************************************************************)
\* for item, vector in zip(items_to_embed, vectors): set_embedding(...)
RECURSIVE store_embeddings(_, _, _, _)
store_embeddings(table, items, vectors, ts) ==
  IF items = <<>> \/ vectors = <<>>
    THEN table
    ELSE store_embeddings(set_embedding(table, Head(items).key, Head(vectors),
                                        Head(items).content_hash, ts),
                          Tail(items), Tail(vectors), ts)

\* The items run(full=f) embeds.
run_items_to_embed(table, f) ==
  IF f THEN iter_items(table) ELSE fetch_items_needing_embedding(table)

\* The items table after run(full=f) has stored its embeddings.
run_rows(table, f, ts) ==
  LET to_embed == run_items_to_embed(table, f)
      texts == [i \in 1..Len(to_embed) |-> content_for_embedding(to_embed[i])]
  IN store_embeddings(table, to_embed, encode(texts), ts)

\* The vectors of the index run(full=f) saves.
run_index(table, f, ts) ==
  LET all_embeddings == fetch_all_embeddings(run_rows(table, f, ts)) IN
  [i \in 1..Len(all_embeddings) |-> all_embeddings[i][2]]

(***************************************************************************)
(* The clock and ingestion                                                 *)
(***************************************************************************)
\* The write order after a write to the row of `key`.
WrittenLast(order, key) ==
  Append(SelectSeq(order, LAMBDA k : k # key), key)

Tick ==
  /\ now < MaxClock
  /\ now' = now + 1
  /\ UNCHANGED <<rankVars, callVars, loadVars, retryVars, enrichVars, rows, written, buildVars, artifactVars>>

UpsertItem(key, item, content_hash) ==
  /\ rows' = upsert_item(rows, key, item, content_hash, now)
  /\ written' = WrittenLast(written, key)
  /\ UNCHANGED <<rankVars, callVars, loadVars, retryVars, enrichVars, now, buildVars, artifactVars>>

RemoveItems(keys) ==
  /\ rows' = remove_items(rows, keys)
  /\ written' = SelectSeq(written, LAMBDA k : k \notin keys)
  /\ UNCHANGED <<rankVars, callVars, loadVars, retryVars, enrichVars, now, buildVars, artifactVars>>

(***************************************************************************)
(* ProfileBuilder.run, one step per access to the store                    *)
(***************************************************************************)
\* run returns or raises: its locals are gone.
ReturnLocals ==
  /\ full' = FALSE
  /\ item_count' = 0
  /\ items_to_embed' = <<>>
  /\ encoded' = Absent
  /\ next_i' = 1

\* items = list(iter_items()); raise when empty; full: items_to_embed = items.
RunStart(f) ==
  /\ pc \in {"idle", "done", "failed"}
  /\ LET items == iter_items(rows) IN
     /\ encoded' = Absent
     /\ next_i' = 1
     /\ IF items = <<>>
          THEN /\ pc' = "failed"
               /\ full' = FALSE
               /\ item_count' = 0
               /\ items_to_embed' = <<>>
          ELSE /\ full' = f
               /\ item_count' = Len(items)
               /\ IF f
                    THEN /\ pc' = "encode"
                         /\ items_to_embed' = items
                    ELSE /\ pc' = "fetch"
                         /\ items_to_embed' = <<>>
  /\ UNCHANGED <<rankVars, callVars, loadVars, retryVars, enrichVars, storeVars, artifactVars>>

\* Mutant: the incremental run embeds every item.
RunFetchEveryItem ==
  /\ pc = "fetch"
  /\ items_to_embed' = iter_items(rows)
  /\ pc' = "encode"
  /\ UNCHANGED <<rankVars, callVars, loadVars, retryVars, enrichVars, storeVars, full, item_count, encoded, next_i, artifactVars>>

\* items_to_embed = self.storage.fetch_items_needing_embedding()
RunFetch ==
  /\ pc = "fetch"
  /\ items_to_embed' = fetch_items_needing_embedding(rows)
  /\ pc' = "encode"
  /\ UNCHANGED <<rankVars, callVars, loadVars, retryVars, enrichVars, storeVars, full, item_count, encoded, next_i, artifactVars>>

\* if items_to_embed: vectors = self.vectorizer.encode(texts)
RunEncode ==
  /\ pc = "encode"
  /\ IF items_to_embed # <<>>
       THEN /\ encoded' = Some([i \in 1..Len(items_to_embed) |->
                                  content_for_embedding(items_to_embed[i])])
            /\ pc' = "store"
       ELSE /\ encoded' = encoded
            /\ pc' = "index"
  /\ UNCHANGED <<rankVars, callVars, loadVars, retryVars, enrichVars, storeVars, full, item_count, items_to_embed, next_i,
                 artifactVars>>

\* After the loop run reads neither items_to_embed nor vectors again.
LoopLocals(more) ==
  IF more
    THEN /\ pc' = "store"
         /\ next_i' = next_i + 1
         /\ UNCHANGED <<items_to_embed, encoded>>
    ELSE /\ pc' = "index"
         /\ next_i' = 1
         /\ items_to_embed' = <<>>
         /\ encoded' = Absent

\* one iteration of: for item, vector in zip(items_to_embed, vectors)
RunSetEmbedding ==
  /\ pc = "store"
  /\ next_i <= Len(items_to_embed)
  /\ LET item == items_to_embed[next_i]
         vector == encode(encoded[1])[next_i]
     IN /\ rows' = set_embedding(rows, item.key, vector, item.content_hash, now)
        /\ written' = IF item.key \in KeysOf(rows)
                         THEN WrittenLast(written, item.key)
                         ELSE written
  /\ LoopLocals(next_i < Len(items_to_embed))
  /\ UNCHANGED <<rankVars, callVars, loadVars, retryVars, enrichVars, now, full, item_count, artifactVars>>

\* all_embeddings = fetch_all_embeddings(); raise when empty;
\* FaissIndex.from_vectors(vectors) and index.save(faiss_path).
RunBuildIndex ==
  /\ pc = "index"
  /\ LET all_embeddings == fetch_all_embeddings(rows) IN
     IF all_embeddings = <<>>
       THEN /\ pc' = "failed"
            /\ faiss_index' = faiss_index
            /\ ReturnLocals
       ELSE /\ pc' = "summary"
            /\ faiss_index' = Some([i \in 1..Len(all_embeddings) |->
                                      all_embeddings[i][2]])
            /\ UNCHANGED <<full, item_count, items_to_embed, encoded, next_i>>
  /\ UNCHANGED <<rankVars, callVars, loadVars, retryVars, enrichVars, storeVars, profile_json>>

\* profile_summary = self._summarize(items, vectors); json_path.write_text
RunWriteProfile ==
  /\ pc = "summary"
  /\ profile_json' = Some([item_count |-> item_count])
  /\ pc' = "done"
  /\ ReturnLocals
  /\ UNCHANGED <<rankVars, callVars, loadVars, retryVars, enrichVars, storeVars, faiss_index>>

Next ==
  \/ Tick
  \/ \E args \in UpsertArgs : UpsertItem(args[1], args[2], args[3])
  \/ \E keys \in SUBSET Keys : RemoveItems(keys)
  \/ \E f \in BOOLEAN : RunStart(f)
  \/ RunFetch
  \/ RunEncode
  \/ RunSetEmbedding
  \/ RunBuildIndex
  \/ RunWriteProfile

Spec == Init /\ [][Next]_vars

(***************************************************************************)
(* The ranking runs: the sources deliver candidates, a ranker ranks them   *)
(***************************************************************************)
\* The library a ranking run finds: nothing built yet; a build that has saved
\* the index and not yet the profile JSON; a finished build.
EmbeddedRow ==
  [key |-> "k1", version |-> 1, title |-> "t1", content_hash |-> "h1",
   embedding |-> "v1", embedding_hash |-> "h1", updated_at |-> 0]

BuiltChoices ==
  { [rows |-> <<>>, faiss_index |-> Absent, profile_json |-> Absent],
    [rows |-> <<EmbeddedRow>>, faiss_index |-> Some(<<"v1">>),
     profile_json |-> Absent],
    [rows |-> <<EmbeddedRow>>, faiss_index |-> Some(<<"v1">>),
     profile_json |-> Some([item_count |-> 1])] }

InitRank ==
  /\ \E built \in BuiltChoices :
       /\ rows = built.rows
       /\ written = [i \in 1..Len(built.rows) |-> built.rows[i].key]
       /\ faiss_index = built.faiss_index
       /\ profile_json = built.profile_json
  /\ now = 0
  /\ pc = "idle"
  /\ full = FALSE
  /\ item_count = 0
  /\ items_to_embed = <<>>
  /\ encoded = Absent
  /\ next_i = 1
  /\ settings \in ScoringChoices
  /\ RankIdle
  /\ CallIdle

\* The texts a rank() call handed to the provider.
TextsOf(call) ==
  IF call = Absent THEN {} ELSE { call[1][i] : i \in 1..Len(call[1]) }

\* One more candidate reaches the list that is handed to rank().
Discover(candidate) ==
  /\ Len(candidates) < MaxCandidates
  /\ candidates' = Append(candidates, candidate)
  /\ UNCHANGED <<callVars, loadVars, retryVars, enrichVars, settings, ranked, ranked_by, rank_encoded, provider_seen,
                 storeVars, buildVars, artifactVars>>

\* Constructing the ranker raised: nothing is ranked.
RankRaised ==
  /\ ranked' = <<>>
  /\ ranked_by' = "raised"
  /\ rank_encoded' = Absent

\* self.index = FaissIndex.load(self.artifacts.index_path) reads the file that
\* is at data/faiss.index at that moment.
LoadIndex ==
  loaded_index' = faiss_index

\* ranker = WorkRanker(base_dir, settings, vectorizer=vectorizer)
\* ranked = ranker.rank(filtered)
WorkRank ==
  /\ LoadIndex
  /\ \/ /\ \/ WorkRanker_init_raises(faiss_index, profile_json)
           \/ ~IsCompleteIndex(faiss_index)
        /\ RankRaised
     \/ /\ ~WorkRanker_init_raises(faiss_index, profile_json)
        /\ ranked' = WorkRanker_rank(candidates, settings)
        /\ ranked_by' = "work"
        /\ rank_encoded' = rank_encode(candidates)
  /\ provider_seen' = provider_seen \cup TextsOf(rank_encoded)
  /\ UNCHANGED <<callVars, retryVars, enrichVars, settings, candidates, storeVars, buildVars, artifactVars>>

\* ranked = ProfileRanker(base_dir, settings).rank(candidates)
ProfileRank ==
  /\ LoadIndex
  /\ \/ /\ \/ ProfileRanker_init_raises(faiss_index)
           \/ ~IsCompleteIndex(faiss_index)
        /\ RankRaised
     \/ /\ ~ProfileRanker_init_raises(faiss_index)
        /\ ranked' = ProfileRanker_rank(candidates, settings)
        /\ ranked_by' = "profile"
        /\ rank_encoded' = rank_encode(candidates)
  /\ provider_seen' = provider_seen \cup TextsOf(rank_encoded)
  /\ UNCHANGED <<callVars, retryVars, enrichVars, settings, candidates, storeVars, buildVars, artifactVars>>

\* The next watch run starts with a new candidate list.
NewRun ==
  /\ candidates # <<>>
  /\ ranked_by # "none"
  /\ candidates' = <<>>
  /\ ranked' = <<>>
  /\ ranked_by' = "none"
  /\ rank_encoded' = Absent
  /\ loaded_index' = Absent
  /\ provider_seen' = provider_seen \cup TextsOf(rank_encoded)
  /\ UNCHANGED <<callVars, retryVars, enrichVars, settings, storeVars, buildVars, artifactVars>>

NextRank ==
  \/ \E candidate \in CandidateWorks : Discover(candidate)
  \/ WorkRank
  \/ ProfileRank
  \/ NewRun

SpecRank == InitRank /\ [][NextRank]_vars

(***************************************************************************)
(* A profile build next to ranking runs.  ProfileBuilder hands index.save   *)
(* the path data/faiss.index, the path the rankers load from; here the      *)
(* write of that file takes two steps, so that a ranker can be constructed  *)
(* between them, and the run can raise at each call that can fail.  In Spec *)
(* nothing reads the file during a run and the save is one step.            *)
(***************************************************************************)
\* vectors = np.array([... for _, vec in all_embeddings])
IndexVectors(table) ==
  LET all_embeddings == fetch_all_embeddings(table)
  IN [i \in 1..Len(all_embeddings) |-> all_embeddings[i][2]]

\* all_embeddings = fetch_all_embeddings(); raise when empty;
\* index.save(self.artifacts.faiss_path) has opened the file and written the
\* first n vectors.
SaveIndexBegin ==
  /\ pc = "index"
  /\ IF fetch_all_embeddings(rows) = <<>>
       THEN /\ pc' = "failed"
            /\ faiss_index' = faiss_index
            /\ ReturnLocals
       ELSE /\ pc' = "saving"
            /\ \E n \in 0..(Len(IndexVectors(rows)) - 1) :
                 faiss_index' = TruncatedAt(IndexVectors(rows), n)
            /\ UNCHANGED <<full, item_count, items_to_embed, encoded, next_i>>
  /\ UNCHANGED <<rankVars, callVars, loadVars, retryVars, enrichVars, storeVars, profile_json>>

\* index.save returns: the file holds the new index.  No step of a build
\* changes a stored embedding between the two steps of the save.
SaveIndexEnd ==
  /\ pc = "saving"
  /\ faiss_index' = Some(IndexVectors(rows))
  /\ pc' = "summary"
  /\ UNCHANGED <<rankVars, callVars, loadVars, retryVars, enrichVars, storeVars, profile_json,
                 full, item_count, items_to_embed, encoded, next_i>>

\* run raises: vectorizer.encode failed, set_embedding failed inside the loop,
\* or index.save failed.  Each set_embedding before it has committed, and run
\* has no handler that takes anything back.
RunAbort ==
  /\ \/ pc = "encode" /\ items_to_embed # <<>>
     \/ pc = "store"
     \/ pc = "saving"
  /\ pc' = "failed"
  /\ ReturnLocals
  /\ UNCHANGED <<rankVars, callVars, loadVars, retryVars, enrichVars, storeVars, artifactVars>>

NextBuild ==
  \/ \E args \in UpsertArgs : UpsertItem(args[1], args[2], args[3])
  \/ \E f \in BOOLEAN : RunStart(f)
  \/ RunFetch
  \/ RunEncode
  \/ RunSetEmbedding
  \/ SaveIndexBegin
  \/ SaveIndexEnd
  \/ RunWriteProfile
  \/ RunAbort
  \/ WorkRank
  \/ ProfileRank

SpecBuild == Init /\ [][NextBuild]_vars

(***************************************************************************)
(* The score components on their own: _compute_recency and                 *)
(* _compute_citation_score applied to bounded arguments                    *)
(***************************************************************************)
\* A candidate under test was published at most MaxAgeDays days ago.
MaxAgeDays == 32

\* Its citation counts go up to MaxCitations.
MaxCitations == 3

\* settings.scoring.decay_days: any of the keys may be missing, and the
\* configuration does not order the boundaries.
DecayChoices ==
  UNION { [keys -> {1, 4, 9}] : keys \in SUBSET {"fast", "medium", "slow"} }

\* candidate.published: None, or a day up to tomorrow.
PublishedChoices ==
  {Absent} \cup { Some(day) : day \in (0 - MaxAgeDays)..1 }

\* candidate.metrics: a map from metric names to numbers.
MetricMaps ==
  UNION { [keys -> (0 - 1)..MaxCitations] :
          keys \in SUBSET {"cited_by", "is-referenced-by", "downloads"} }

ComponentCalls ==
  { [fn |-> "compute_recency", published |-> published,
     decay_days |-> decay, metrics |-> <<>>] :
      published \in PublishedChoices, decay \in DecayChoices }
  \cup { [fn |-> "compute_citation_score", published |-> Absent,
          decay_days |-> <<>>, metrics |-> metrics] :
           metrics \in MetricMaps }

InitComponents ==
  /\ StoreInit
  /\ settings = DefaultScoring
  /\ RankIdle
  /\ call_args \in { Some(call) : call \in ComponentCalls }
  /\ call_result = Absent
  /\ loaded_index = Absent
  /\ retry_call = Absent
  /\ s2 = Absent
  /\ scraper = Absent

\* recency_score = _compute_recency(candidate.published, self.settings)
ApplyRecency ==
  /\ call_args # Absent
  /\ call_result = Absent
  /\ call_args[1].fn = "compute_recency"
  /\ call_result' = Some(compute_recency(call_args[1].published, call_args[1]))
  /\ UNCHANGED <<call_args, loadVars, retryVars, enrichVars, rankVars, storeVars, buildVars, artifactVars>>

\* citation_score = _compute_citation_score(candidate)
ApplyCitation ==
  /\ call_args # Absent
  /\ call_result = Absent
  /\ call_args[1].fn = "compute_citation_score"
  /\ call_result' = Some(compute_citation_score(call_args[1]))
  /\ UNCHANGED <<call_args, loadVars, retryVars, enrichVars, rankVars, storeVars, buildVars, artifactVars>>

NextComponents ==
  \/ ApplyRecency
  \/ ApplyCitation

SpecComponents == InitComponents /\ [][NextComponents]_vars

(***************************************************************************)
(* DedupeEngine.filter against the library                                 *)
(***************************************************************************)
\* A batch handed to filter holds at most MaxBatch candidates.
MaxBatch == 3

\* Candidates as the sources deliver them: the same work from two feeds with
\* DOIs and titles that differ in case and spacing, a work without a title,
\* a work without DOI and title.
DedupeCandidates ==
  { [identifier |-> "a1", source |-> "arxiv", doi |-> None,
     title |-> "Deep Nets"],
    [identifier |-> "c1", source |-> "crossref", doi |-> "10.1/X",
     title |-> "Deep  nets"],
    [identifier |-> "c2", source |-> "crossref", doi |-> "10.1/x",
     title |-> "Graphs"],
    [identifier |-> "b1", source |-> "biorxiv", doi |-> "10.2/y",
     title |-> None],
    [identifier |-> "b2", source |-> "biorxiv", doi |-> None,
     title |-> None] }

\* The DOIs and titles of the library items filter compares with.
LibraryChoices ==
  { <<>>,
    <<[doi |-> "10.2/Y", title |-> "Cells"]>>,
    <<[doi |-> None, title |-> "graphs"]>> }

\* DOIs compare case-insensitively.
normalize_doi(doi) ==
  CASE doi = "10.1/X" -> "10.1/x"
    [] doi = "10.2/Y" -> "10.2/y"
    [] OTHER -> doi

\* Titles compare in lower case with whitespace collapsed.
normalize_title(title) ==
  CASE title = "Deep Nets" -> "deep nets"
    [] title = "Deep  nets" -> "deep nets"
    [] title = "Graphs" -> "graphs"
    [] title = "Cells" -> "cells"
    [] OTHER -> title

\* A missing DOI or title takes the work out of that rule.
doi_keys(work) == IF work.doi = None THEN {} ELSE {normalize_doi(work.doi)}

title_keys(work) ==
  IF work.title = None THEN {} ELSE {normalize_title(work.title)}

SeenKeys(works, keys(_)) == UNION { keys(works[i]) : i \in 1..Len(works) }

\* Mutant: a call drops the first duplicate it meets and keeps the rest of
\* the batch as it is.
RECURSIVE dedupe_drop_first(_, _, _, _)
dedupe_drop_first(works, dois, titles, kept) ==
  IF works = <<>>
    THEN kept
    ELSE LET work == Head(works) IN
         IF doi_keys(work) \cap dois # {} \/ title_keys(work) \cap titles # {}
           THEN kept \o Tail(works)
           ELSE dedupe_drop_first(Tail(works), dois \cup doi_keys(work),
                                  titles \cup title_keys(work),
                                  Append(kept, work))

\* The first-seen work of every DOI and title that is not in the library.
RECURSIVE dedupe_keep(_, _, _, _)
dedupe_keep(works, dois, titles, kept) ==
  IF works = <<>>
    THEN kept
    ELSE LET work == Head(works) IN
         IF doi_keys(work) \cap dois # {} \/ title_keys(work) \cap titles # {}
           THEN dedupe_keep(Tail(works), dois, titles, kept)
           ELSE dedupe_keep(Tail(works), dois \cup doi_keys(work),
                            titles \cup title_keys(work), Append(kept, work))

\* Mutant of DedupeEngine.filter built on dedupe_drop_first.
DedupeEngine_filter_one_at_a_time(works, library) ==
  dedupe_drop_first(works, SeenKeys(library, doi_keys),
                    SeenKeys(library, title_keys), <<>>)

\* DedupeEngine(storage).filter(candidates)
DedupeEngine_filter(works, library) ==
  dedupe_keep(works, SeenKeys(library, doi_keys),
              SeenKeys(library, title_keys), <<>>)

RECURSIVE BatchesOf(_)
BatchesOf(length) ==
  IF length = 0
    THEN {<<>>}
    ELSE LET shorter == BatchesOf(length - 1) IN
         shorter \cup { Append(batch, work) :
                          batch \in { b \in shorter : Len(b) = length - 1 },
                          work \in DedupeCandidates }

InitDedupe ==
  /\ StoreInit
  /\ settings = DefaultScoring
  /\ RankIdle
  /\ call_args \in { Some([fn |-> "filter", candidates |-> batch,
                           library |-> library]) :
                       batch \in BatchesOf(MaxBatch), library \in LibraryChoices }
  /\ call_result = Absent
  /\ loaded_index = Absent
  /\ retry_call = Absent
  /\ s2 = Absent
  /\ scraper = Absent

\* filtered = dedupe.filter(candidates)
ApplyFilter ==
  /\ call_args # Absent
  /\ call_args[1].fn = "filter"
  /\ call_result = Absent
  /\ call_result' =
       Some([passes |-> 1,
             works |-> DedupeEngine_filter(call_args[1].candidates,
                                           call_args[1].library)])
  /\ UNCHANGED <<call_args, loadVars, retryVars, enrichVars, rankVars, storeVars, buildVars, artifactVars>>

\* The filtered list is filtered once more against the same library.
ApplyFilterAgain ==
  /\ call_args # Absent
  /\ call_args[1].fn = "filter"
  /\ call_result # Absent
  /\ call_result[1].passes = 1
  /\ call_result' =
       Some([passes |-> 2,
             works |-> DedupeEngine_filter(call_result[1].works,
                                           call_args[1].library)])
  /\ UNCHANGED <<call_args, loadVars, retryVars, enrichVars, rankVars, storeVars, buildVars, artifactVars>>

NextDedupe ==
  \/ ApplyFilter
  \/ ApplyFilterAgain

SpecDedupe == InitDedupe /\ [][NextDedupe]_vars

(***************************************************************************)
(* with_retry: the wrapper around a function that calls the LLM API        *)
(***************************************************************************)
\* The largest max_attempts a decorated function is given.
MaxAttempts == 3

RETRYABLE_STATUS_CODES == {429, 500, 502, 503, 504}

\* Status codes of the responses the API gives.
StatusCodes == RETRYABLE_STATUS_CODES \cup {400, 401}

\* The decorator's arguments; _complete_with_retry uses (3, 2.0, 1.0).
RetryArguments ==
  [max_attempts : 0..MaxAttempts, backoff_factor : {1, 2, 3},
   initial_delay : {1, 2}]

\* What one invocation of the wrapped function does: it returns a value, or
\* raises an HTTPError (with a response or without one), a ConnectionError,
\* a Timeout, or an exception of another class.
Outcomes ==
  { [kind |-> "return", status |-> Absent, value |-> Some(v)] :
      v \in {"r1", "r2"} }
  \cup { [kind |-> "HTTPError", status |-> Some(code), value |-> Absent] :
           code \in StatusCodes }
  \cup { [kind |-> k, status |-> Absent, value |-> Absent] :
           k \in {"HTTPError", "ConnectionError", "Timeout", "ValueError"} }

\* except HTTPError as e: if e.response is not None and
\* e.response.status_code not in RETRYABLE_STATUS_CODES: raise
reraised(outcome) ==
  /\ outcome.kind = "HTTPError"
  /\ outcome.status # Absent
  /\ outcome.status[1] \notin RETRYABLE_STATUS_CODES

\* The except clauses keep the exception in last_exception.
caught(outcome) ==
  \/ outcome.kind = "HTTPError" /\ ~reraised(outcome)
  \/ outcome.kind \in {"ConnectionError", "Timeout"}

\* Mutant: the wrapper sleeps after every caught failure.
sleeps_after_every_attempt(attempt, max_attempts) == TRUE

\* if attempt < max_attempts - 1: time.sleep(delay); delay *= backoff_factor
sleeps_after(attempt, max_attempts) == attempt < max_attempts - 1

\* The exceptions `assert last_exception is not None; raise last_exception`
\* ends with when nothing was caught: the assertion fails, or, the assertions
\* compiled away, raise None is a TypeError.
NothingCaught ==
  { [kind |-> k, status |-> Absent, value |-> Absent] :
      k \in {"AssertionError", "TypeError"} }

Returned(outcome) == Some([how |-> "returned", what |-> outcome])
Raised(outcome) == Some([how |-> "raised", what |-> outcome])

InitRetry ==
  /\ StoreInit
  /\ settings = DefaultScoring
  /\ RankIdle
  /\ CallIdle

\* The wrapper is entered: last_exception = None; delay = initial_delay.  With
\* an empty range(max_attempts) it goes straight to the raise after the loop.
RetryEnter(arguments) ==
  /\ IF retry_call = Absent THEN TRUE ELSE retry_call[1].result # Absent
  /\ \E nothing \in NothingCaught :
       retry_call' =
         Some([max_attempts |-> arguments.max_attempts,
               backoff_factor |-> arguments.backoff_factor,
               initial_delay |-> arguments.initial_delay,
               attempt |-> 0,
               delay |-> arguments.initial_delay,
               last_exception |-> Absent,
               invoked |-> <<>>,
               slept |-> <<>>,
               result |-> IF arguments.max_attempts = 0
                            THEN Raised(nothing) ELSE Absent])
  /\ UNCHANGED <<callVars, loadVars, enrichVars, rankVars, storeVars, buildVars, artifactVars>>

\* One iteration of `for attempt in range(max_attempts)`, and after the last
\* one `raise last_exception`.
RetryAttempt(outcome) ==
  /\ retry_call # Absent
  /\ LET c == retry_call[1]
         called == [c EXCEPT !.invoked = Append(c.invoked, outcome)]
     IN
     /\ c.result = Absent
     /\ c.attempt < c.max_attempts
     /\ retry_call' =
          IF outcome.kind = "return"
            THEN Some([called EXCEPT !.result = Returned(outcome)])
          ELSE IF ~caught(outcome)
            THEN Some([called EXCEPT !.result = Raised(outcome)])
          ELSE
            LET sleeps == sleeps_after(c.attempt, c.max_attempts) IN
            Some([called EXCEPT
                    !.last_exception = Some(outcome),
                    !.slept = IF sleeps THEN Append(c.slept, c.delay)
                                        ELSE c.slept,
                    !.delay = IF sleeps THEN c.delay * c.backoff_factor
                                        ELSE c.delay,
                    !.attempt = c.attempt + 1,
                    !.result = IF c.attempt + 1 = c.max_attempts
                                 THEN Raised(outcome) ELSE Absent])
  /\ UNCHANGED <<callVars, loadVars, enrichVars, rankVars, storeVars, buildVars, artifactVars>>

NextRetry ==
  \/ \E arguments \in RetryArguments : RetryEnter(arguments)
  \/ \E outcome \in Outcomes : RetryAttempt(outcome)

SpecRetry == InitRetry /\ [][NextRetry]_vars

\* ---------------------------------------------------------------------
\* OpenRouterClient (llm/openrouter.py): from_config and complete.
\* ---------------------------------------------------------------------

\* The retry section of the LLM configuration a client is built from.
RetryConfigs == [max_attempts : 1..MaxAttempts, backoff_factor : {1, 2, 3}]

\* @with_retry(max_attempts=3, backoff_factor=2.0, initial_delay=1.0)
CompleteRetryArguments ==
  [max_attempts |-> 3, backoff_factor |-> 2, initial_delay |-> 1]

\* OpenRouterClient.from_config(config): the fields __init__ keeps.
from_config(retry) ==
  [max_retries |-> retry.max_attempts, backoff_factor |-> retry.backoff_factor]

\* What one run of _complete_with_retry's body does: session.post raises a
\* ConnectionError or a Timeout, raise_for_status raises an HTTPError that
\* carries the response, reading the answer raises another exception, or an
\* LLMResponse is returned.
CompleteOutcomes ==
  { outcome \in Outcomes :
      outcome.kind = "HTTPError" => outcome.status # Absent }

InitClient ==
  /\ StoreInit
  /\ settings = DefaultScoring
  /\ RankIdle
  /\ call_args \in { Some(from_config(retry)) : retry \in RetryConfigs }
  /\ call_result = Absent
  /\ loaded_index = Absent
  /\ retry_call = Absent
  /\ s2 = Absent
  /\ scraper = Absent

\* client.complete(prompt): the decorated _complete_with_retry is entered.
ClientComplete ==
  /\ call_args # Absent
  /\ RetryEnter(CompleteRetryArguments)

\* One attempt of the decorated method.
ClientAttempt(outcome) == RetryAttempt(outcome)

NextClient ==
  \/ ClientComplete
  \/ \E outcome \in CompleteOutcomes : ClientAttempt(outcome)

SpecClient == InitClient /\ [][NextClient]_vars

(***************************************************************************)
(* SemanticScholarClient._request: rate limiting and retries.  Times are   *)
(* whole seconds.                                                          *)
(***************************************************************************)
\* The largest max_retries a client is constructed with.
MaxRetries == 3

\* The number of _request calls one client makes.
MaxCalls == 2

\* What time.time() returns when the client is constructed; the client's
\* _last_request_time starts at 0.0, far in the past.
StartTime == 100

\* The constructor's arguments that _request reads.
S2Arguments ==
  [max_retries : 0..MaxRetries, backoff_factor : {1, 2},
   rate_limit_delay : {1, 3}]

\* What the server does with one request: it answers with a status (a 429
\* with no Retry-After header, one in seconds, or one that is an HTTP date),
\* or session.request raises a RequestException.
S2Outcomes ==
  { [kind |-> "response", status |-> code, retry_after |-> Absent] :
      code \in {200, 403, 500} }
  \cup { [kind |-> "response", status |-> 429, retry_after |-> header] :
           header \in {Absent, Some("0"), Some("date")} }
  \cup { [kind |-> "RequestException", status |-> 0, retry_after |-> Absent] }

\* How long session.request takes: a second until the response is there; a
\* RequestException is raised at once (connection refused) or later (timeout).
S2Durations(outcome) ==
  IF outcome.kind = "RequestException" THEN {0, 1} ELSE {1}

\* The pause between two _request calls of one client; the first call
\* follows the construction.
S2Pauses(calls) == IF calls = 0 THEN {0} ELSE {0, 1}

\* int(response.headers.get("Retry-After", 60)); an HTTP date is no integer.
retry_after_seconds(header) ==
  IF header = Absent THEN 60 ELSE IF header = Some("0") THEN 0 ELSE 0 - 1

retry_after_raises(header) == header = Some("date")

Power(base, exponent) ==
  IF exponent = 0 THEN 1
  ELSE IF exponent = 1 THEN base
  ELSE IF exponent = 2 THEN base * base
  ELSE base * base * base

\* if attempt < self._max_retries - 1: time.sleep(backoff_factor**attempt)
backs_off(attempt, max_retries) == attempt < max_retries - 1

\* Mutant: a 403 is retried like a server error.
returns_at_once_but_403(status) == status # 429 /\ status # 403 /\ status < 500

\* 429: continue; 403: return response; status_code < 500: return response
returns_at_once(status) == status # 429 /\ (status = 403 \/ status < 500)

\* _wait_for_rate_limit: the time at which it returns.
wait_for_rate_limit(time, last_request_time, rate_limit_delay) ==
  IF time - last_request_time < rate_limit_delay
    THEN time + (rate_limit_delay - (time - last_request_time))
    ELSE time

\* _request returns the response, or raises an exception of class `kind`.
S2Returned(outcome) == Some([how |-> "returned", what |-> outcome])
S2Raised(kind) ==
  Some([how |-> "raised",
        what |-> [kind |-> kind, status |-> 0, retry_after |-> Absent]])

InitS2 ==
  /\ StoreInit
  /\ settings = DefaultScoring
  /\ RankIdle
  /\ call_args = Absent
  /\ call_result = Absent
  /\ loaded_index = Absent
  /\ retry_call = Absent
  /\ scraper = Absent
  /\ \E arguments \in S2Arguments :
       s2 = Some([max_retries |-> arguments.max_retries,
                  backoff_factor |-> arguments.backoff_factor,
                  rate_limit_delay |-> arguments.rate_limit_delay,
                  last_request_time |-> 0,
                  time |-> StartTime,
                  calls |-> 0,
                  attempt |-> 0,
                  requests |-> 0,
                  last_outcome |-> Absent,
                  last_exception |-> FALSE,
                  issued |-> Absent,
                  issued_raised |-> FALSE,
                  gap |-> Absent,
                  after_exception |-> FALSE,
                  result |-> Absent])

\* _request is called: last_exception = None, and the loop starts; with an
\* empty range(max_retries) it raises RequestException("Max retries exceeded").
S2Request(pause) ==
  /\ s2 # Absent
  /\ s2[1].calls = 0 \/ s2[1].result # Absent
  /\ s2[1].calls < MaxCalls
  /\ s2' = Some([s2[1] EXCEPT
                   !.time = @ + pause,
                   !.calls = @ + 1,
                   !.attempt = 0,
                   !.requests = 0,
                   !.last_outcome = Absent,
                   !.last_exception = FALSE,
                   !.result = IF s2[1].max_retries = 0
                                THEN S2Raised("RequestException")
                                ELSE Absent])
  /\ UNCHANGED <<callVars, loadVars, retryVars, scraper, rankVars, storeVars, buildVars, artifactVars>>

\* One iteration of `for attempt in range(self._max_retries)`, and after the
\* last one the raise that follows the loop.
S2Attempt(outcome, duration) ==
  /\ s2 # Absent
  /\ LET c == s2[1]
         issue == wait_for_rate_limit(c.time, c.last_request_time,
                                      c.rate_limit_delay)
         done == issue + duration
         sent == [c EXCEPT
                    !.requests = @ + 1,
                    !.last_outcome = Some(outcome),
                    !.issued = Some(issue),
                    !.gap = IF c.issued = Absent THEN Absent
                                                ELSE Some(issue - c.issued[1]),
                    !.issued_raised = outcome.kind = "RequestException",
                    !.after_exception = c.issued_raised]
         last == c.attempt + 1 = c.max_retries
         exhausted == S2Raised("RequestException")
         backoff == IF backs_off(c.attempt, c.max_retries)
                      THEN Power(c.backoff_factor, c.attempt) ELSE 0
     IN
     /\ c.calls > 0
     /\ c.result = Absent
     /\ c.attempt < c.max_retries
     /\ s2' =
          IF outcome.kind = "RequestException"
            THEN Some([sent EXCEPT
                         !.time = done + backoff,
                         !.last_exception = TRUE,
                         !.attempt = @ + 1,
                         !.result = IF last THEN exhausted ELSE Absent])
          ELSE IF outcome.status = 429
            THEN IF retry_after_raises(outcome.retry_after)
                   THEN Some([sent EXCEPT
                                !.time = done,
                                !.last_request_time = done,
                                !.result = S2Raised("ValueError")])
                   ELSE Some([sent EXCEPT
                                !.time = done + retry_after_seconds(
                                                  outcome.retry_after),
                                !.last_request_time = done,
                                !.attempt = @ + 1,
                                !.result = IF last THEN exhausted ELSE Absent])
          ELSE IF returns_at_once(outcome.status)
            THEN Some([sent EXCEPT
                         !.time = done,
                         !.last_request_time = done,
                         !.result = S2Returned(outcome)])
          ELSE Some([sent EXCEPT
                       !.time = done + backoff,
                       !.last_request_time = done,
                       !.attempt = @ + 1,
                       !.result = IF last THEN exhausted ELSE Absent])
  /\ UNCHANGED <<callVars, loadVars, retryVars, scraper, rankVars, storeVars, buildVars, artifactVars>>

S2AttemptAny ==
  \E outcome \in S2Outcomes :
    \E duration \in S2Durations(outcome) : S2Attempt(outcome, duration)

NextS2 ==
  \/ \E pause \in S2Pauses(IF s2 = Absent THEN 0 ELSE s2[1].calls) :
       S2Request(pause)
  \/ S2AttemptAny

SpecS2 == InitS2 /\ [][NextS2]_vars

(***************************************************************************)
(* SemanticScholarClient.get_papers_batch, each _request taken as one call  *)
(* that returns a response or raises                                        *)
(***************************************************************************)
\* The longest DOI list handed to get_papers_batch.
MaxDois == 3

\* Stands for the batch endpoint's limit of 500 ids.
MAX_BATCH_SIZE == 2

DoiSet == {"d1", "d2"}

\* The record Semantic Scholar holds for a DOI.
PaperOf(doi) == IF doi = "d1" THEN "paper1" ELSE "paper2"

\* What _request does for the POST of a batch: it returns a response (200,
\* 403, 400, or 404 as another 4xx), or it raises a RequestException whose
\* text holds "400" or "403" somewhere (a proxy's answer, an address, a
\* timeout value) or holds neither, or the ValueError of an unparsable
\* Retry-After.
BatchOutcomes ==
  { [kind |-> "response", status |-> code, mentions |-> FALSE] :
      code \in {200, 400, 403, 404} }
  \cup { [kind |-> "RequestException", status |-> 0, mentions |-> m] :
           m \in BOOLEAN }
  \cup { [kind |-> "ValueError", status |-> 0, mentions |-> FALSE] }

\* What _request does for the GET of one DOI: the server answers (200 with
\* the paper when it holds the DOI, 404 otherwise), answers 403, or the
\* request raises a RequestException.
DoiOutcomes == {"answer", "403", "RequestException"}

\* The server of one get_papers_batch call: the DOIs it holds, what happens
\* to the POST of each batch, and what happens to the GET of each DOI.
S2Servers ==
  [found : SUBSET DoiSet,
   batch : [1..2 -> BatchOutcomes],
   doi : [DoiSet -> DoiOutcomes]]

\* get_paper_by_doi: the paper, or None (404, raise_for_status raising, or a
\* RequestException, which it catches).
get_paper_by_doi(doi, server) ==
  IF server.doi[doi] = "answer" /\ doi \in server.found
    THEN Some(PaperOf(doi))
    ELSE Absent

\* results.update(batch_results)
DictUpdate(results, more) ==
  [d \in DOMAIN results \cup DOMAIN more |->
     IF d \in DOMAIN more THEN more[d] ELSE results[d]]

EmptyDict == [d \in {} |-> "paper1"]

\* for doi, paper in zip(dois, papers): if paper is not None: results[doi] = paper
RECURSIVE zip_results(_, _)
zip_results(dois, server) ==
  IF dois = <<>> THEN EmptyDict
  ELSE LET rest == zip_results(Tail(dois), server)
           doi == Head(dois)
       IN IF doi \in server.found
            THEN DictUpdate([d \in {doi} |-> PaperOf(doi)], rest)
            ELSE rest

\* _fetch_individually: one get_paper_by_doi per DOI, in order.
RECURSIVE fetch_individually(_, _)
fetch_individually(dois, server) ==
  IF dois = <<>> THEN EmptyDict
  ELSE LET doi == Head(dois)
           paper == get_paper_by_doi(doi, server)
           rest == fetch_individually(Tail(dois), server)
       IN IF paper # Absent
            THEN DictUpdate([d \in {doi} |-> paper[1]], rest)
            ELSE rest

\* if "403" in error_str or "400" in error_str: return {}
skips_fallback(outcome) == outcome.mentions

\* _fetch_batch: the mapping of the batch, the DOIs it fetched one by one,
\* and the exception it let through, if any.
fetch_batch(dois, outcome, server) ==
  LET nothing == [results |-> EmptyDict, individual |-> <<>>,
                  raised |-> Absent, outcome |-> outcome, dois |-> dois]
      fallback == [nothing EXCEPT
                     !.results = fetch_individually(dois, server),
                     !.individual = dois]
  IN
  IF outcome.kind = "ValueError"
    THEN [nothing EXCEPT !.raised = Some("ValueError")]
  ELSE IF outcome.kind = "RequestException"
    THEN IF skips_fallback(outcome) THEN nothing ELSE fallback
  ELSE IF outcome.status = 403 \/ outcome.status = 400
    THEN nothing
  ELSE IF outcome.status >= 400
    THEN fallback
  ELSE [nothing EXCEPT !.results = zip_results(dois, server)]

\* dois[i : i + MAX_BATCH_SIZE] for i in range(0, len(dois), MAX_BATCH_SIZE)
BatchSlice(dois, b) ==
  SubSeq(dois, (b - 1) * MAX_BATCH_SIZE + 1,
         IF b * MAX_BATCH_SIZE < Len(dois) THEN b * MAX_BATCH_SIZE
                                           ELSE Len(dois))

BatchCount(dois) == (Len(dois) + MAX_BATCH_SIZE - 1) \div MAX_BATCH_SIZE

\* The loop of get_papers_batch from batch b on; an exception ends it.
RECURSIVE papers_from(_, _, _, _)
papers_from(dois, server, b, done) ==
  IF b > BatchCount(dois) THEN done
  ELSE LET batch == fetch_batch(BatchSlice(dois, b), server.batch[b], server)
           next == [results |-> DictUpdate(done.results, batch.results),
                    batches |-> Append(done.batches, batch),
                    raised |-> batch.raised]
       IN IF batch.raised # Absent THEN next
          ELSE papers_from(dois, server, b + 1, next)

get_papers_batch(dois, server) ==
  papers_from(dois, server, 1,
              [results |-> EmptyDict, batches |-> <<>>, raised |-> Absent])

DoiLists == UNION { [1..n -> DoiSet] : n \in 0..MaxDois }

InitS2Batch ==
  /\ StoreInit
  /\ settings = DefaultScoring
  /\ RankIdle
  /\ call_args \in { Some([fn |-> "get_papers_batch", dois |-> dois,
                           server |-> server]) :
                       dois \in DoiLists, server \in S2Servers }
  /\ call_result = Absent
  /\ loaded_index = Absent
  /\ retry_call = Absent
  /\ s2 = Absent
  /\ scraper = Absent

\* papers = client.get_papers_batch(dois)
ApplyGetPapersBatch ==
  /\ call_args # Absent
  /\ call_result = Absent
  /\ call_result' = Some(get_papers_batch(call_args[1].dois,
                                          call_args[1].server))
  /\ UNCHANGED <<call_args, loadVars, retryVars, enrichVars, rankVars, storeVars, buildVars, artifactVars>>

NextS2Batch == ApplyGetPapersBatch

SpecS2Batch == InitS2Batch /\ [][NextS2Batch]_vars

(***************************************************************************)
(* AbstractScraper.fetch_batch with an on_result callback                   *)
(***************************************************************************)
\* The longest item list handed to fetch_batch.
MaxItems == 3

\* item.get("doi"): a DOI, or nothing.
ItemDois == {Some("d1"), Some("d2"), Absent}

ItemLists == UNION { [1..n -> ItemDois] : n \in 0..MaxItems }

\* What fetching and extracting gives for one DOI: an abstract or None.
Abstracts == {Some("abstract"), Absent}

\* The indices of the items that have a DOI.
WithDoi(items) == { i \in 1..Len(items) : items[i] # Absent }

\* if parallel and len(items) > 1
takes_parallel_path(items, parallel) == parallel /\ Len(items) > 1

\* The sequential loop skips items without a DOI: the next index at or after
\* `from` whose item has one, or Len(items) + 1.
NextWithDoi(items, from) ==
  IF \E i \in WithDoi(items) : i >= from
    THEN CHOOSE i \in WithDoi(items) :
           i >= from /\ \A j \in WithDoi(items) : j >= from => i <= j
    ELSE Len(items) + 1

\* The sequential loop from its start: results = {}.
SequentialFrom(call) ==
  IF WithDoi(call.items) = {}
    THEN [call EXCEPT !.mode = "done", !.pending = {},
                      !.results = Some(EmptyDict)]
    ELSE [call EXCEPT !.mode = "sequential", !.pending = {},
                      !.abstracts = EmptyDict,
                      !.next = NextWithDoi(call.items, 1)]

\* fetch_batch up to its first fetch: the early returns, and the choice of
\* the parallel or the sequential path.
fetch_batch_enter(items, parallel) ==
  LET call == [items |-> items, parallel |-> parallel, mode |-> "done",
               pending |-> {}, next |-> 1, delivered |-> <<>>,
               abstracts |-> EmptyDict, fell_back |-> FALSE,
               results |-> Some(EmptyDict)]
  IN
  IF items = <<>> THEN call
  ELSE IF takes_parallel_path(items, parallel)
    THEN IF WithDoi(items) = {} THEN call
         ELSE [call EXCEPT !.mode = "parallel", !.pending = WithDoi(items),
                           !.results = Absent]
  ELSE SequentialFrom([call EXCEPT !.results = Absent])

\* abstracts[doi] = abstract, when there is one.
WithAbstract(dict, doi, abstract) ==
  IF abstract = Absent THEN dict
  ELSE DictUpdate(dict, [d \in {doi} |-> abstract[1]])

InitScrape ==
  /\ StoreInit
  /\ settings = DefaultScoring
  /\ RankIdle
  /\ call_args = Absent
  /\ call_result = Absent
  /\ loaded_index = Absent
  /\ retry_call = Absent
  /\ s2 = Absent
  /\ \E items \in ItemLists, parallel \in BOOLEAN :
       scraper = Some(fetch_batch_enter(items, parallel))

\* One task of asyncio.as_completed finishes: the abstract is extracted,
\* kept, and on_result(doi, abstract) returns.  After the last task
\* _fetch_batch_async returns abstracts.
ParallelResult(i, abstract) ==
  /\ scraper[1].mode = "parallel"
  /\ i \in scraper[1].pending
  /\ LET c == scraper[1]
         doi == c.items[i][1]
         kept == WithAbstract(c.abstracts, doi, abstract)
         last == c.pending = {i}
     IN scraper' =
          Some([c EXCEPT
                  !.pending = @ \ {i},
                  !.abstracts = kept,
                  !.delivered = Append(@, [doi |-> doi, abstract |-> abstract]),
                  !.mode = IF last THEN "done" ELSE "parallel",
                  !.results = IF last THEN Some(kept) ELSE Absent])
  /\ UNCHANGED <<callVars, loadVars, retryVars, s2, rankVars, storeVars, buildVars, artifactVars>>

\* on_result(doi, abstract) raises in the parallel path: fetch_batch catches
\* the exception and starts the sequential loop over all items.
ParallelCallbackRaises(i, abstract) ==
  /\ scraper[1].mode = "parallel"
  /\ i \in scraper[1].pending
  /\ LET c == scraper[1]
         doi == c.items[i][1]
     IN scraper' =
          Some(SequentialFrom(
                 [c EXCEPT
                    !.delivered = Append(@, [doi |-> doi,
                                             abstract |-> abstract]),
                    !.fell_back = TRUE]))
  /\ UNCHANGED <<callVars, loadVars, retryVars, s2, rankVars, storeVars, buildVars, artifactVars>>

\* `await coro` raises for a fetch task: the same fall-back.
ParallelTaskRaises(i) ==
  /\ scraper[1].mode = "parallel"
  /\ i \in scraper[1].pending
  /\ scraper' = Some(SequentialFrom([scraper[1] EXCEPT !.fell_back = TRUE]))
  /\ UNCHANGED <<callVars, loadVars, retryVars, s2, rankVars, storeVars, buildVars, artifactVars>>

\* One iteration of the sequential loop for an item with a DOI:
\* fetch_abstract, results[doi] = abstract, on_result(doi, abstract).
SequentialResult(abstract) ==
  /\ scraper[1].mode = "sequential"
  /\ LET c == scraper[1]
         doi == c.items[c.next][1]
         kept == WithAbstract(c.abstracts, doi, abstract)
         following == NextWithDoi(c.items, c.next + 1)
         last == following > Len(c.items)
     IN scraper' =
          Some([c EXCEPT
                  !.next = following,
                  !.abstracts = kept,
                  !.delivered = Append(@, [doi |-> doi, abstract |-> abstract]),
                  !.mode = IF last THEN "done" ELSE "sequential",
                  !.results = IF last THEN Some(kept) ELSE Absent])
  /\ UNCHANGED <<callVars, loadVars, retryVars, s2, rankVars, storeVars, buildVars, artifactVars>>

\* on_result raises in the sequential loop: fetch_batch raises.
SequentialCallbackRaises(abstract) ==
  /\ scraper[1].mode = "sequential"
  /\ LET c == scraper[1]
         doi == c.items[c.next][1]
     IN scraper' =
          Some([c EXCEPT
                  !.delivered = Append(@, [doi |-> doi, abstract |-> abstract]),
                  !.mode = "raised"])
  /\ UNCHANGED <<callVars, loadVars, retryVars, s2, rankVars, storeVars, buildVars, artifactVars>>

NextScrape ==
  \/ \E i \in 1..MaxItems, abstract \in Abstracts : ParallelResult(i, abstract)
  \/ \E i \in 1..MaxItems, abstract \in Abstracts :
       ParallelCallbackRaises(i, abstract)
  \/ \E i \in 1..MaxItems : ParallelTaskRaises(i)
  \/ \E abstract \in Abstracts : SequentialResult(abstract)
  \/ \E abstract \in Abstracts : SequentialCallbackRaises(abstract)

SpecScrape == InitScrape /\ [][NextScrape]_vars

(***************************************************************************)
(* The filters watch applies to the ranked list: _filter_recent,            *)
(* _limit_preprints and the cut to the top N.  A ratio is a whole number of *)
(* percent.                                                                 *)
(***************************************************************************)
\* The longest ranked list.
MaxRanked == 5

\* The source and the age in days of a ranked work.
RankedKinds ==
  { [source |-> "arxiv", published |-> Some(1)],
    [source |-> "bioRxiv", published |-> Some(1)],
    [source |-> "crossref", published |-> Some(1)],
    [source |-> "crossref", published |-> Some(30)],
    [source |-> "arxiv", published |-> Absent] }

\* The lists rank() returns: by score descending; the i-th work of a list
\* is work i.
RankedLists ==
  { [i \in 1..n |-> [id |-> i, source |-> kinds[i].source,
                     published |-> kinds[i].published,
                     score |-> MaxRanked + 1 - i]] :
      n \in 0..MaxRanked, kinds \in [1..MaxRanked -> RankedKinds] }

\* work.source.lower() in preprint_sources
is_preprint(work) ==
  Lower(work.source) \in {"arxiv", "biorxiv", "medrxiv"}

\* Mutant: the preprint that is about to be added is not counted.
exceeds_ratio_before_adding(preprints, total, max_percent) ==
  (preprints - 1) * 100 > max_percent * total

\* (proposed_preprints / proposed_total) > max_ratio
exceeds_ratio(preprints, total, max_percent) ==
  preprints * 100 > max_percent * total

\* The loop of _limit_preprints over the rest of ranked.
RECURSIVE limit_loop(_, _, _, _)
limit_loop(rest, filtered, preprint_count, max_percent) ==
  IF rest = <<>> THEN filtered
  ELSE LET work == Head(rest)
           proposed_total == Len(filtered) + 1
           proposed_preprints == preprint_count + 1
       IN IF is_preprint(work)
            THEN IF exceeds_ratio(proposed_preprints, proposed_total,
                                  max_percent)
                   THEN limit_loop(Tail(rest), filtered, preprint_count,
                                   max_percent)
                   ELSE limit_loop(Tail(rest), Append(filtered, work),
                                   proposed_preprints, max_percent)
            ELSE limit_loop(Tail(rest), Append(filtered, work),
                            preprint_count, max_percent)

limit_preprints(works, max_percent) ==
  IF works = <<>> \/ max_percent <= 0
    THEN works
    ELSE limit_loop(works, <<>>, 0, max_percent)

\* kept = [work for work in ranked if work.published and
\*         work.published >= cutoff]
filter_recent(works, days) ==
  IF days <= 0 THEN works
  ELSE SelectSeq(works, LAMBDA work :
                   IF work.published = Absent THEN FALSE
                   ELSE work.published[1] <= days)

\* ranked = _filter_recent(ranked, days=7);
\* ranked = _limit_preprints(ranked, max_ratio=0.3);
\* if top and len(ranked) > top: ranked = ranked[:top]
watch_filters(works, top) ==
  LET limited == limit_preprints(filter_recent(works, 7), 30)
  IN IF top # 0 /\ Len(limited) > top THEN SubSeq(limited, 1, top)
                                       ELSE limited

InitLimit ==
  /\ StoreInit
  /\ settings = DefaultScoring
  /\ RankIdle
  /\ call_args \in { Some([fn |-> "filters", ranked |-> list,
                           max_percent |-> percent, top |-> top]) :
                       list \in RankedLists, percent \in {0, 30, 50},
                       top \in {0, 2} }
  /\ call_result = Absent
  /\ loaded_index = Absent
  /\ retry_call = Absent
  /\ s2 = Absent
  /\ scraper = Absent

\* _limit_preprints(ranked, max_ratio=...)
ApplyLimitPreprints ==
  /\ call_args # Absent
  /\ call_result = Absent
  /\ call_result' =
       Some([fn |-> "limit_preprints",
             works |-> limit_preprints(call_args[1].ranked,
                                       call_args[1].max_percent)])
  /\ UNCHANGED <<call_args, loadVars, retryVars, enrichVars, rankVars, storeVars, buildVars, artifactVars>>

\* The tail of watch after ranker.rank(filtered).
ApplyWatchFilters ==
  /\ call_args # Absent
  /\ call_result = Absent
  /\ call_result' =
       Some([fn |-> "watch",
             works |-> watch_filters(call_args[1].ranked, call_args[1].top)])
  /\ UNCHANGED <<call_args, loadVars, retryVars, enrichVars, rankVars, storeVars, buildVars, artifactVars>>

NextLimit ==
  \/ ApplyLimitPreprints
  \/ ApplyWatchFilters

SpecLimit == InitLimit /\ [][NextLimit]_vars

\* ---------------------------------------------------------------------
\* hash_content (utils/hashing.py) and change detection by content hash.
\* ---------------------------------------------------------------------

\* Longest text of one part.
MaxPartLen == 2

\* The characters the texts of the parts are written with.
Chars == {"a", "b"}

\* part.encode("utf-8"), character by character.
Utf8(char) == CASE char = "a" -> 97 [] char = "b" -> 98

RECURSIVE encode_utf8(_)
encode_utf8(text) ==
  IF text = <<>> THEN <<>>
  ELSE <<Utf8(Head(text))>> \o encode_utf8(Tail(text))

\* The texts of at most MaxPartLen characters.
Texts == UNION { [1..n -> Chars] : n \in 0..MaxPartLen }

\* A part is None (Absent) or a str, the empty str included.
Parts == {Absent} \cup { Some(text) : text \in Texts }

\* (title, abstract, authors)
PartTuples == [1..3 -> Parts]

\* `if part:` is false for None and for "".
is_truthy(part) == IF part = Absent THEN FALSE ELSE part[1] # <<>>

\* The bytes sha.update has been fed after the loop over the parts.
RECURSIVE sha_updates(_)
sha_updates(parts) ==
  IF parts = <<>> THEN <<>>
  ELSE (IF is_truthy(Head(parts)) THEN encode_utf8(Head(parts)[1]) ELSE <<>>)
       \o sha_updates(Tail(parts))

\* sha.hexdigest(): SHA-256 taken as collision-free, so a digest stands for
\* exactly one byte string.
hexdigest(bytes) == [sha256 |-> bytes]

hash_content(parts) == hexdigest(sha_updates(parts))

\* fetch_items_needing_embedding's condition on one row.
needs_embedding(embedding, embedding_hash, content_hash) ==
  \/ embedding = Absent
  \/ embedding_hash = Absent
  \/ (content_hash # Absent /\ embedding_hash # content_hash)

InitHash ==
  /\ StoreInit
  /\ settings = DefaultScoring
  /\ RankIdle
  /\ call_args \in { Some([before |-> before, after |-> after]) :
                       before \in PartTuples, after \in PartTuples }
  /\ call_result = Absent
  /\ loaded_index = Absent
  /\ retry_call = Absent
  /\ s2 = Absent
  /\ scraper = Absent

\* hash_content is applied to the same parts twice.
ApplyHashTwice ==
  /\ call_args # Absent
  /\ call_result = Absent
  /\ call_result' = Some([fn |-> "hash_content",
                          first |-> hash_content(call_args[1].before),
                          second |-> hash_content(call_args[1].before)])
  /\ UNCHANGED <<call_args, loadVars, retryVars, enrichVars, rankVars, storeVars, buildVars, artifactVars>>

\* An item embedded under the hash of its parts is written again with other
\* parts and their hash; the row is then tested for staleness.
ApplyHashChange ==
  /\ call_args # Absent
  /\ call_result = Absent
  /\ LET embedding_hash == hash_content(call_args[1].before)
         content_hash == hash_content(call_args[1].after)
     IN call_result' =
          Some([fn |-> "change",
                first |-> embedding_hash,
                second |-> content_hash,
                stale |-> needs_embedding(Some("vector"), Some(embedding_hash),
                                          Some(content_hash))])
  /\ UNCHANGED <<call_args, loadVars, retryVars, enrichVars, rankVars, storeVars, buildVars, artifactVars>>

NextHash ==
  \/ ApplyHashTwice
  \/ ApplyHashChange

SpecHash == InitHash /\ [][NextHash]_vars

(***************************************************************************)
(* Vocabulary of the properties                                            *)
(***************************************************************************)
RowByKey(table, key) == table[RowOf(table, key)]

\* The keys fetch_items_needing_embedding() returns.
ReturnedKeys(table) ==
  LET result == fetch_items_needing_embedding(table) IN
  { result[i].key : i \in 1..Len(result) }

\* This step is an upsert_item call for `key`.
UpsertStep(key) ==
  \E args \in UpsertArgs :
    args[1] = key /\ UpsertItem(args[1], args[2], args[3])

\* This step is set_embedding(key, ., h) with h the item's current
\* content_hash.
SetEmbeddingWithCurrentHash(key) ==
  /\ RunSetEmbedding
  /\ items_to_embed[next_i].key = key
  /\ key \in KeysOf(rows)
  /\ items_to_embed[next_i].content_hash = RowByKey(rows, key).content_hash

\* This step is an upsert_item call for `key` that stores the hash the stored
\* embedding was made from, or no hash.
UpsertOfEmbeddedOrNoHash(key) ==
  \E args \in UpsertArgs :
    /\ args[1] = key
    /\ UpsertItem(args[1], args[2], args[3])
    /\ key \in KeysOf(rows)
    /\ args[3] \in {None, RowByKey(rows, key).embedding_hash}

\* The row holds a content hash, and it is not the hash of its embedding.
HashesDiffer(r) ==
  r.content_hash # None /\ r.content_hash # r.embedding_hash

(***************************************************************************)
(* C1: staleness is sticky.                                                *)
(***************************************************************************)
\* C1, as stated: once upsert_item stores a content_hash that differs from the
\* item's embedding_hash, the item is returned by
\* fetch_items_needing_embedding() in every later state in which it exists,
\* until set_embedding is called for it with its current content_hash.  Step
\* by step: a step that is not that set_embedding call and leaves the item in
\* the store ends with the item returned when it is an upsert_item storing a
\* differing hash, and when the item was returned before the step.
C1_StickyUntilSetEmbedding ==
  [][\A key \in Keys :
       (/\ rows' # rows
        /\ key \in KeysOf(rows')
        /\ ~SetEmbeddingWithCurrentHash(key)) =>
         /\ (UpsertStep(key) /\ RowByKey(rows', key).content_hash
                                  # RowByKey(rows', key).embedding_hash)
              => key \in ReturnedKeys(rows')
         /\ (key \in KeysOf(rows) /\ key \in ReturnedKeys(rows))
              => key \in ReturnedKeys(rows')]_vars

\* C1, amended: once upsert_item stores a non-null content_hash that differs
\* from the item's embedding_hash, the item is returned and counted in every
\* later state in which it exists, until set_embedding is called for it with
\* its current content_hash, or upsert_item stores for it the hash its
\* embedding was made from, or no hash at all.  Step by step: after every
\* write a row that holds a differing hash is returned, and a row that held
\* one and is returned no more was written by one of those three calls.
C1_StickyUntilSetEmbeddingOrRevert ==
  [][\A key \in Keys :
       (rows' # rows /\ key \in KeysOf(rows')) =>
         /\ HashesDiffer(RowByKey(rows', key)) => key \in ReturnedKeys(rows')
         /\ (/\ key \notin ReturnedKeys(rows')
             /\ key \in KeysOf(rows)
             /\ HashesDiffer(RowByKey(rows, key)))
              => (SetEmbeddingWithCurrentHash(key)
                  \/ UpsertOfEmbeddedOrNoHash(key))
         /\ count_items_needing_embedding(rows')
              = Cardinality(ReturnedKeys(rows'))]_vars

\* A build is storing embeddings while the store holds an item whose content
\* hash was replaced after its embedding was stored.
C1_Witness ==
  /\ pc = "store"
  /\ \E i \in 1..Len(rows) :
       /\ rows[i].embedding # None
       /\ rows[i].embedding_hash # None
       /\ HashesDiffer(rows[i])
       /\ \E j \in 1..Len(items_to_embed) : items_to_embed[j].key = rows[i].key

(***************************************************************************)
(* C2: fetch_items_needing_embedding() returns exactly the stale items.    *)
(***************************************************************************)
\* C2: in every reachable state an item is returned if and only if its
\* embedding is absent, or its embedding_hash is absent, or its embedding_hash
\* is not equal to its content_hash, an absent content_hash included.
C2_ReturnsExactlyStale ==
  \A i \in 1..Len(rows) :
    rows[i].key \in ReturnedKeys(rows)
      <=> \/ rows[i].embedding = None
          \/ rows[i].embedding_hash = None
          \/ rows[i].embedding_hash # rows[i].content_hash

\* The failing state: an embedded item whose content_hash was reset to None
\* is not returned although its embedding_hash is not its content_hash.
C2_Witness ==
  \E i \in 1..Len(rows) :
    /\ rows[i].embedding # None
    /\ rows[i].embedding_hash # None
    /\ rows[i].content_hash = None
    /\ rows[i].key \notin ReturnedKeys(rows)

(***************************************************************************)
(* C3: the frame of upsert_item.                                           *)
(***************************************************************************)
\* C3: upsert_item on a key that exists replaces the item's descriptive
\* attributes and content_hash and leaves its embedding and embedding_hash as
\* they were; on a new key it creates the item with embedding and
\* embedding_hash absent; every other item is unchanged.
C3_UpsertFrame ==
  [][\A args \in UpsertArgs :
       (rows' # rows /\ UpsertItem(args[1], args[2], args[3])) =>
         LET key == args[1]
             after == RowByKey(rows', key)
         IN /\ KeysOf(rows') = KeysOf(rows) \cup {key}
            /\ Len(rows') = Cardinality(KeysOf(rows'))
            /\ after.version = args[2].version
            /\ after.title = args[2].title
            /\ after.content_hash = args[3]
            /\ IF key \in KeysOf(rows)
                 THEN /\ after.embedding = RowByKey(rows, key).embedding
                      /\ after.embedding_hash
                           = RowByKey(rows, key).embedding_hash
                 ELSE /\ after.embedding = None
                      /\ after.embedding_hash = None
            /\ \A other \in KeysOf(rows) \ {key} :
                 RowByKey(rows', other) = RowByKey(rows, other)]_vars

\* Both items are in the store, one of them with an embedding made from a
\* hash that a later upsert_item replaced, the other one embedded too.
C3_Witness ==
  /\ Len(rows) = 2
  /\ \A i \in 1..2 : rows[i].embedding # None
  /\ \E i \in 1..2 : /\ rows[i].version = 2
                     /\ rows[i].embedding = "v1"
                     /\ rows[i].embedding_hash = "h1"
                     /\ rows[i].content_hash = "h2"

(***************************************************************************)
(* C4: the frame of set_embedding.                                         *)
(***************************************************************************)
\* The call RunSetEmbedding makes.
SetEmbeddingKey == items_to_embed[next_i].key

SetEmbeddingHash == items_to_embed[next_i].content_hash

SetEmbeddingVector == EncodeText(content_for_embedding(items_to_embed[next_i]))

\* C4, as stated: set_embedding updates the embedding and embedding_hash of
\* its key and changes no other attribute of that item, its place in later
\* query results (updated_at) included, and no attribute of any other item.
C4_SetEmbeddingOnlyEmbeddingFields ==
  [][RunSetEmbedding =>
       /\ KeysOf(rows') = KeysOf(rows)
       /\ \A key \in KeysOf(rows) :
            LET before == RowByKey(rows, key)
                after == RowByKey(rows', key)
            IN IF key = SetEmbeddingKey
                 THEN /\ after.embedding = SetEmbeddingVector
                      /\ after.embedding_hash = SetEmbeddingHash
                      /\ after.version = before.version
                      /\ after.title = before.title
                      /\ after.content_hash = before.content_hash
                      /\ after.updated_at = before.updated_at
                 ELSE after = before]_vars

\* C4, amended: set_embedding updates the embedding, the embedding_hash and
\* the updated_at timestamp of its key together in one step; it changes no
\* other attribute of that item (version, title, content_hash), no attribute
\* of any other item, and nothing at all when the key is not in the store.
C4_SetEmbeddingAlsoTimestamp ==
  [][RunSetEmbedding =>
       /\ KeysOf(rows') = KeysOf(rows)
       /\ Len(rows') = Len(rows)
       /\ \A i \in 1..Len(rows) :
            LET before == rows[i]
                after == rows'[i]
            IN IF before.key = SetEmbeddingKey
                 THEN after = [before EXCEPT
                                 !.embedding = SetEmbeddingVector,
                                 !.embedding_hash = SetEmbeddingHash,
                                 !.updated_at = now]
                 ELSE after = before]_vars

\* set_embedding has just rewritten, a second later, an item that shares the
\* store with another one.
C4_Witness ==
  /\ pc \in {"store", "index"}
  /\ Len(rows) = 2
  /\ \E i \in 1..2 :
       /\ rows[i].embedding # None
       /\ rows[i].updated_at = now
       /\ rows[3 - i].updated_at < now
       /\ written[Len(written)] = rows[i].key

(***************************************************************************)
(* C5: remove_items is idempotent.                                         *)
(***************************************************************************)
\* C5: after remove_items(K) no item with a key in K exists and the items
\* with other keys are unchanged; a second remove_items(K) changes nothing;
\* keys that are not in the store are ignored; remove_items of no keys
\* changes nothing.
C5_RemoveIdempotent ==
  \A keys \in SUBSET Keys :
    LET once == remove_items(rows, keys) IN
    /\ KeysOf(once) = KeysOf(rows) \ keys
    /\ Len(once) = Cardinality(KeysOf(once))
    /\ \A key \in KeysOf(once) : RowByKey(once, key) = RowByKey(rows, key)
    /\ remove_items(once, keys) = once
    /\ keys \cap KeysOf(rows) = {} => once = rows

\* An item was removed after a build had indexed two items; the other item is
\* still in the store with its embedding.
C5_Witness ==
  /\ faiss_index # Absent
  /\ Len(faiss_index[1]) = 2
  /\ Len(rows) = 1
  /\ rows[1].embedding # None
  /\ Len(written) = 1

(***************************************************************************)
(* C6: the order of fetch_items_needing_embedding().                       *)
(***************************************************************************)
PlaceIn(order, key) == CHOOSE i \in 1..Len(order) : order[i] = key

\* C6, as stated: an item that was last written (by upsert_item or
\* set_embedding) before another one precedes it in the result.
C6_OldestWrittenFirst ==
  LET result == fetch_items_needing_embedding(rows) IN
  \A i, j \in 1..Len(result) :
    PlaceIn(written, result[i].key) < PlaceIn(written, result[j].key)
      => i < j

\* C6, amended: the result holds the stale items in the order of their
\* updated_at, the second of their last write: an item last written in an
\* earlier second than another precedes it; items last written within the
\* same second come in the order of the table scan, whichever was written
\* first.
C6_OrderedByTimestamp ==
  LET result == fetch_items_needing_embedding(rows) IN
  /\ \A i, j \in 1..Len(result) :
       i < j => /\ result[i].key # result[j].key
                /\ RowByKey(rows, result[i].key).updated_at
                     <= RowByKey(rows, result[j].key).updated_at
                /\ RowByKey(rows, result[i].key).updated_at
                     = RowByKey(rows, result[j].key).updated_at
                     => RowOf(rows, result[i].key) < RowOf(rows, result[j].key)
  /\ \A i, j \in 1..Len(written) :
       i < j => RowByKey(rows, written[i]).updated_at
                  <= RowByKey(rows, written[j]).updated_at

\* Two stale items, the one the scan meets first written a second later.
C6_Witness ==
  /\ Len(fetch_items_needing_embedding(rows)) = 2
  /\ rows[1].updated_at > rows[2].updated_at

(***************************************************************************)
(* C7: the index is derived from the store.                                *)
(***************************************************************************)
EmbeddedKeys(table) ==
  { key \in KeysOf(table) : RowByKey(table, key).embedding # None }

\* The index has one row for every item of the table that has an embedding,
\* holding that embedding, and no other row.
HoldsStoredEmbeddings(index, table) ==
  /\ Len(index) = Cardinality(EmbeddedKeys(table))
  /\ \A i \in 1..Len(index) :
       Cardinality({ j \in 1..Len(index) : index[j] = index[i] })
         = Cardinality({ key \in EmbeddedKeys(table) :
                           RowByKey(table, key).embedding = index[i] })

\* C7: whenever run returns successfully, the index it saved was built from
\* the vectors fetch_all_embeddings() returned in that run: one row for every
\* item that then had an embedding, re-embedded in this run or not, and none
\* for an item that was no longer in the store.
C7_IndexBuiltFromStore ==
  [][/\ pc' = "summary" =>
          \/ pc = "summary" /\ faiss_index' = faiss_index
          \/ /\ pc = "index"
             /\ faiss_index' # Absent
             /\ HoldsStoredEmbeddings(faiss_index'[1], rows)
     /\ pc' = "done" =>
          \/ pc = "done" /\ faiss_index' = faiss_index
          \/ pc = "summary" /\ faiss_index' = faiss_index]_vars

\* An incremental build has saved an index of one row: the store had held two
\* embedded items at the build before, and one of them was removed since.
C7_Witness ==
  /\ pc = "summary"
  /\ ~full
  /\ item_count = 1
  /\ Len(faiss_index[1]) = 1
  /\ profile_json # Absent
  /\ profile_json[1].item_count = 2

(***************************************************************************)
(* C8: what a build encodes.                                               *)
(***************************************************************************)
KeysIn(items) == { items[i].key : i \in 1..Len(items) }

\* The row has an embedding hash, and it is the hash of its content.
UpToDate(r) == r.embedding_hash # None /\ r.embedding_hash = r.content_hash

\* C8: an incremental run hands the provider exactly the items that
\* fetch_items_needing_embedding() returned and does not call it when there
\* are none; it leaves the embedding and embedding_hash of an item whose
\* embedding_hash equals its content_hash as they are.  A full run encodes
\* every item of the store.
C8_EncodesWhatIsStale ==
  [][/\ (pc = "fetch" /\ pc' # pc) =>
          /\ items_to_embed' = fetch_items_needing_embedding(rows)
          /\ \A i \in 1..Len(rows) :
               UpToDate(rows[i]) => rows[i].key \notin KeysIn(items_to_embed')
     /\ (pc \in {"idle", "done", "failed"} /\ pc' = "encode") =>
          /\ full'
          /\ KeysIn(items_to_embed') = KeysOf(rows)
          /\ Len(items_to_embed') = Len(rows)
     /\ (pc = "encode" /\ pc' # pc) =>
          /\ items_to_embed' = items_to_embed
          /\ IF items_to_embed = <<>>
               THEN ~full /\ encoded' = Absent /\ pc' = "index"
               ELSE /\ pc' = "store"
                    /\ encoded' # Absent
                    /\ Len(encoded'[1]) = Len(items_to_embed)
                    /\ \A i \in 1..Len(items_to_embed) :
                         encoded'[1][i] = items_to_embed[i].title
     /\ (RunSetEmbedding /\ ~full) =>
          \A i \in 1..Len(rows) :
            rows[i].key # items_to_embed[next_i].key
              => /\ i <= Len(rows')
                 /\ rows'[i].embedding = rows[i].embedding
                 /\ rows'[i].embedding_hash = rows[i].embedding_hash]_vars

\* An incremental build is storing the embedding of a stale item while the
\* store also holds an up-to-date item, which it did not encode.
C8_Witness ==
  /\ pc = "store"
  /\ ~full
  /\ encoded # Absent
  /\ Len(encoded[1]) = 1
  /\ \E i \in 1..Len(rows) :
       /\ UpToDate(rows[i])
       /\ rows[i].key \notin KeysIn(items_to_embed)

(***************************************************************************)
(* C9: for every candidate list, the list returned by WorkRanker.rank and  *)
(* by ProfileRanker.rank is ordered by composite score descending: in      *)
(* every adjacent pair the earlier score is >= the later score.            *)
(***************************************************************************)
ScoreDescending(works) ==
  \A i \in 1..(Len(works) - 1) : works[i].score >= works[i + 1].score

C9_RankedByScoreDescending ==
  /\ ScoreDescending(ranked)
  /\ ScoreDescending(WorkRanker_rank(candidates, settings))
  /\ ScoreDescending(ProfileRanker_rank(candidates, settings))

\* A ranking of three candidates that does not start with the first
\* candidate and whose scores really fall.
C9_Witness ==
  /\ ranked_by = "work"
  /\ Len(ranked) = 3
  /\ Len(candidates) = 3
  /\ ranked[1].candidate # candidates[1]
  /\ ranked[1].score > ranked[3].score

(***************************************************************************)
(* C10: for every ranked work of either ranker and any configured pair of  *)
(* thresholds: score >= must_read gives the label must_read; consider <=   *)
(* score < must_read gives consider; otherwise the label is ignore.  Each  *)
(* work carries exactly one of the three labels.                           *)
(***************************************************************************)
LabelAgrees(w, thresholds) ==
  /\ w.label \in {"must_read", "consider", "ignore"}
  /\ w.score >= thresholds.must_read => w.label = "must_read"
  /\ (thresholds.consider <= w.score /\ w.score < thresholds.must_read)
       => w.label = "consider"
  /\ (w.score < thresholds.must_read /\ w.score < thresholds.consider)
       => w.label = "ignore"

C10_LabelFollowsThresholds ==
  /\ \A i \in 1..Len(ranked) : LabelAgrees(ranked[i], settings.thresholds)
  /\ LET byWork == WorkRanker_rank(candidates, settings)
         byProfile == ProfileRanker_rank(candidates, settings)
     IN /\ \A i \in 1..Len(byWork) : LabelAgrees(byWork[i], settings.thresholds)
        /\ \A i \in 1..Len(byProfile) :
             LabelAgrees(byProfile[i], settings.thresholds)

\* One ranking that carries all three labels.
C10_Witness ==
  /\ ranked_by \in {"work", "profile"}
  /\ \A l \in {"must_read", "consider", "ignore"} :
       \E i \in 1..Len(ranked) : ranked[i].label = l

(***************************************************************************)
(* C11: in both ranking modes the composite score is the weighted sum of   *)
(* the mode's components with every weight taken from the configuration:   *)
(* similarity, recency, citations, author and venue bonus and impact       *)
(* factor in full mode, similarity and impact factor in profile mode.      *)
(***************************************************************************)
\* The weights the configuration supplies.
ConfiguredWeights(scoring) ==
  { scoring.weights[name] : name \in DOMAIN scoring.weights }

\* C11: the score of every ranked work is the sum of its components, each
\* multiplied by a weight of settings.scoring.weights.
C11_ScoreFromConfiguredWeights ==
  \A i \in 1..Len(ranked) :
    LET w == ranked[i]
        weights == settings.weights
        journal == compute_score(w.candidate)
    IN /\ ranked_by = "profile" =>
            \E impact \in ConfiguredWeights(settings) :
              w.score = w.similarity * weights.similarity + journal * impact
       /\ ranked_by = "work" =>
            \E impact \in ConfiguredWeights(settings) :
              w.score = w.similarity * weights.similarity
                        + w.recency_score * weights.recency
                        + w.metric_score * weights.citations
                        + w.author_bonus * weights.author_bonus
                        + w.venue_bonus * weights.venue_bonus
                        + journal * impact

\* The failing state: ProfileRanker.rank has scored a candidate with 0.8 of
\* its similarity while the configured similarity weight is 0.6.
C11_Witness ==
  /\ ranked_by = "profile"
  /\ settings.weights.similarity = 600
  /\ \E i \in 1..Len(ranked) :
       /\ ranked[i].impact_factor_score = 0
       /\ ranked[i].score = 800 * ranked[i].similarity
       /\ ranked[i].score # settings.weights.similarity * ranked[i].similarity

(***************************************************************************)
(* C12: rank on an empty candidate list returns an empty list without      *)
(* raising and without calling the embedding provider or searching the     *)
(* index; on a non-empty list it returns exactly one RankedWork per input  *)
(* candidate, a permutation of the input.                                  *)
(***************************************************************************)
\* How often the candidate occurs in the list.
Occurrences(works, candidate) ==
  Cardinality({ i \in 1..Len(works) : works[i] = candidate })

\* C12: every rank() call of a constructed ranker, of either kind, returns
\* the empty list for no candidates and hands the provider nothing; for
\* candidates it returns one ranked work for each of them.
C12_OneRankedWorkPerCandidate ==
  [][((WorkRank \/ ProfileRank) /\ ranked_by' # "raised") =>
       /\ ranked_by' \in {"work", "profile"}
       /\ Len(ranked') = Len(candidates)
       /\ \A candidate \in CandidateWorks :
            Occurrences([i \in 1..Len(ranked') |-> ranked'[i].candidate],
                        candidate)
              = Occurrences(candidates, candidate)
       /\ IF candidates = <<>>
            THEN ranked' = <<>> /\ rank_encoded' = Absent
            ELSE /\ rank_encoded' # Absent
                 /\ Len(rank_encoded'[1]) = Len(candidates)]_vars

\* A ranker has returned three works, two of them for the same candidate, in
\* another order than the candidates came.
C12_Witness ==
  /\ ranked_by \in {"work", "profile"}
  /\ Len(ranked) = 3
  /\ candidates[2] = candidates[3]
  /\ ranked[1].candidate = candidates[2]
  /\ ranked[3].candidate = candidates[1]

\* A ranker has been handed the empty list.
C12_WitnessEmpty ==
  /\ ranked_by \in {"work", "profile"}
  /\ candidates = <<>>
  /\ ranked = <<>>

(***************************************************************************)
(* C13: ranking without a built profile fails fast: when the index         *)
(* artifact, or in full mode the profile JSON, is absent, constructing the *)
(* ranker raises before a candidate is embedded, the provider is called or *)
(* a score is produced; rank never runs on a ranker without a loaded       *)
(* index.                                                                  *)
(***************************************************************************)
C13_NoRankWithoutIndex ==
  /\ faiss_index = Absent =>
       /\ ranked_by \in {"none", "raised"}
       /\ ranked = <<>>
       /\ rank_encoded = Absent
       /\ provider_seen = {}
  /\ profile_json = Absent => ranked_by # "work"
  /\ ranked_by = "raised" =>
       /\ faiss_index = Absent \/ profile_json = Absent
       /\ ranked = <<>>
       /\ rank_encoded = Absent
  /\ ranked_by \in {"work", "profile"} => faiss_index # Absent

\* Constructing the full-mode ranker has raised with candidates waiting: the
\* index is there and the profile JSON is not.
C13_Witness ==
  /\ ranked_by = "raised"
  /\ faiss_index # Absent
  /\ profile_json = Absent
  /\ Len(candidates) >= 2

(***************************************************************************)
(* C16: when the same candidate text is embedded twice within the TTL      *)
(* window, in one run or in two consecutive ranking runs, the underlying   *)
(* embedding provider is called at most once for that text.                *)
(***************************************************************************)
\* C16: no rank() call hands the provider a text that an earlier rank() call
\* handed to it.  The clock does not advance in these runs, so every call is
\* within the TTL window of the one before.
C16_ProviderCalledOncePerText ==
  TextsOf(rank_encoded) \cap provider_seen = {}

\* The failing state: the second of two runs has handed the provider the
\* text it embedded in the first.
C16_Witness ==
  /\ ranked_by = "work"
  /\ Len(candidates) = 1
  /\ candidate_content(candidates[1]) \in provider_seen
  /\ rank_encoded = Some(<<candidate_content(candidates[1])>>)

(***************************************************************************)
(* C14: recency is a total step function of age: published=None gives 0.0  *)
(* and never raises; otherwise recency is 1.0, 0.7, 0.4 or 0.1 by the      *)
(* first configured window (fast, medium, slow) that contains the          *)
(* non-negative number of days since publication; for any configuration    *)
(* of the boundaries recency does not increase as the age grows.           *)
(***************************************************************************)
\* The value of the first window that contains the age; 100 beyond them.
FirstWindow(delta_days, decay) ==
  LET bound == <<decay_get(decay, "fast", 3), decay_get(decay, "medium", 7),
                 decay_get(decay, "slow", 30)>>
      value == <<1000, 700, 400>>
      inside == { i \in 1..3 : delta_days <= bound[i] }
  IN IF inside = {}
       THEN 100
       ELSE value[CHOOSE i \in inside : \A j \in inside : i <= j]

C14_RecencyStepFunction ==
  (call_args # Absent /\ call_args[1].fn = "compute_recency") =>
    LET call == call_args[1] IN
    /\ call_result # Absent =>
         IF call.published = Absent
           THEN call_result[1] = 0
           ELSE LET age == 0 - call.published[1] IN
                call_result[1]
                  = FirstWindow(IF age > 0 THEN age ELSE 0, call.decay_days)
    /\ \A younger, older \in 0..MaxAgeDays :
         younger <= older =>
           compute_recency(Some(0 - younger), call)
             >= compute_recency(Some(0 - older), call)

\* Recency 0.4 was computed under a configuration whose medium window ends
\* before its fast window.
C14_Witness ==
  /\ call_args # Absent
  /\ call_args[1].fn = "compute_recency"
  /\ call_result = Some(400)
  /\ {"fast", "medium"} \subseteq DOMAIN call_args[1].decay_days
  /\ call_args[1].decay_days["medium"] < call_args[1].decay_days["fast"]

(***************************************************************************)
(* C15: the citation component is zero when the candidate is uncited or    *)
(* has no citation count in its metric map, and for every candidate metric *)
(* map it is never below zero and never makes rank raise.                  *)
(***************************************************************************)
\* The candidate's citation count: "cited_by", else "is-referenced-by".
HasCitationCount(metrics) ==
  "cited_by" \in DOMAIN metrics \/ "is-referenced-by" \in DOMAIN metrics

CitationCount(metrics) ==
  IF "cited_by" \in DOMAIN metrics
    THEN metrics["cited_by"]
    ELSE metrics["is-referenced-by"]

C17_DedupeIdempotent ==
  (call_args # Absent /\ call_args[1].fn = "filter") =>
    LET library == call_args[1].library
        once == DedupeEngine_filter(call_args[1].candidates, library)
    IN /\ DedupeEngine_filter(once, library) = once
       /\ call_result # Absent => call_result[1].works = once

\* A filtered list was filtered again: the first pass had dropped a library
\* match and a cross-source duplicate from a batch of three.
C17_Witness ==
  /\ call_args # Absent
  /\ call_args[1].fn = "filter"
  /\ call_args[1].library # <<>>
  /\ Len(call_args[1].candidates) = 3
  /\ call_result # Absent
  /\ call_result[1].passes = 2
  /\ Len(call_result[1].works) = 1

(***************************************************************************)
(* C18: a ranker that loads the index while a profile build is running      *)
(* reads a complete index, the previous one or the new one, never a         *)
(* partially written file.                                                  *)
(***************************************************************************)
C18_LoadsCompleteIndex ==
  IsCompleteIndex(loaded_index)

\* A ranker was constructed while index.save was writing the file.
C18_Witness ==
  /\ pc = "saving"
  /\ loaded_index # Absent
  /\ ranked_by \in {"work", "profile", "raised"}

(***************************************************************************)
(* C19: when ProfileBuilder.run aborts with an error, the store holds all    *)
(* of that run's embedding writes or none of them, and the abort leaves the  *)
(* saved index as it was.                                                   *)
(***************************************************************************)
\* The row of the i-th item of the run holds what the run writes for it.
RunWriteVisible(table, i) ==
  LET item == items_to_embed[i] IN
  \E j \in 1..Len(table) :
    /\ table[j].key = item.key
    /\ table[j].embedding = encode(encoded[1])[i]
    /\ table[j].embedding_hash = item.content_hash

C19_NoPartialCommit ==
  [][ RunAbort =>
        /\ faiss_index' = faiss_index
        /\ pc = "store" =>
              \/ \A i \in 1..Len(items_to_embed) : RunWriteVisible(rows', i)
              \/ \A i \in 1..Len(items_to_embed) : ~RunWriteVisible(rows', i)
    ]_vars

\* A run has failed after it wrote an embedding: one row is embedded and
\* another is not.
C19_Witness ==
  /\ pc = "failed"
  /\ \E i, j \in 1..Len(rows) :
       rows[i].embedding # None /\ rows[j].embedding = None

(***************************************************************************)
(* C20: with max_attempts >= 1 the wrapped function is invoked at most      *)
(* max_attempts times; the first successful result is returned and nothing  *)
(* is invoked after it; an HTTPError whose response status is not one of    *)
(* 429, 500, 502, 503, 504 is raised again at once, with no retry; after     *)
(* max_attempts retryable failures the last caught exception is raised; the  *)
(* wrapper sleeps only between two attempts, first for initial_delay and     *)
(* each next time for backoff_factor times the sleep before.                 *)
(***************************************************************************)
\* The failure is one with_retry answers with another attempt.
Retryable(outcome) ==
  \/ outcome.kind \in {"ConnectionError", "Timeout"}
  \/ /\ outcome.kind = "HTTPError"
     /\ outcome.status = Absent \/ outcome.status[1] \in {429, 500, 502, 503, 504}

C20_RetryProtocol ==
  (retry_call # Absent /\ retry_call[1].max_attempts >= 1) =>
    LET c == retry_call[1]
        n == Len(c.invoked)
    IN
    /\ n <= c.max_attempts
    /\ \A i \in 1..n :
         /\ c.invoked[i].kind = "return" =>
              i = n /\ c.result = Returned(c.invoked[i])
         /\ (c.invoked[i].kind = "HTTPError" /\ ~Retryable(c.invoked[i])) =>
              i = n /\ c.result = Raised(c.invoked[i])
         /\ i < n => Retryable(c.invoked[i])
    /\ (n = c.max_attempts /\ \A i \in 1..n : Retryable(c.invoked[i])) =>
         c.result = Raised(c.invoked[n])
    /\ c.result = Absent => n < c.max_attempts /\ Len(c.slept) = n
    /\ c.result # Absent => Len(c.slept) = n - 1
    /\ \A i \in 1..Len(c.slept) :
         c.slept[i] = IF i = 1 THEN c.initial_delay
                              ELSE c.backoff_factor * c.slept[i - 1]

\* Three attempts failed with retryable errors: the wrapper has slept twice,
\* the second time longer, and has raised the last error.
C20_Witness ==
  /\ retry_call # Absent
  /\ retry_call[1].max_attempts = 3
  /\ Len(retry_call[1].invoked) = 3
  /\ retry_call[1].result = Raised(retry_call[1].invoked[3])
  /\ retry_call[1].invoked[3] # retry_call[1].invoked[2]
  /\ Len(retry_call[1].slept) = 2
  /\ retry_call[1].slept[2] > retry_call[1].slept[1]

(***************************************************************************)
(* C21: _request ends after at most max_retries HTTP requests whatever the  *)
(* server does: a 403 or another status below 500 other than 429 is         *)
(* returned at once, a 429, a 5xx or a transport exception takes one        *)
(* attempt, and when the attempts are used up an exception is raised, no    *)
(* response returned.                                                       *)
(***************************************************************************)
S2Running == s2 # Absent /\ s2[1].calls > 0 /\ s2[1].result = Absent

S2Finished == s2 # Absent /\ s2[1].calls > 0 /\ s2[1].result # Absent

\* The outcome is one that costs an attempt.
TakesAttempt(outcome) ==
  \/ outcome.kind = "RequestException"
  \/ outcome.status = 429
  \/ outcome.status >= 500

RequestProtocol ==
  (s2 # Absent /\ s2[1].calls > 0) =>
    LET c == s2[1] IN
    /\ c.requests <= c.max_retries
    /\ c.result = Absent => c.requests = c.attempt /\ c.attempt < c.max_retries
    /\ c.last_outcome # Absent =>
         IF TakesAttempt(c.last_outcome[1])
           THEN /\ c.requests = c.attempt \/ c.result = S2Raised("ValueError")
                /\ c.result # Absent => c.result[1].how = "raised"
                /\ c.requests = c.max_retries => c.result # Absent
           ELSE c.result = S2Returned(c.last_outcome[1])
    /\ (c.result # Absent /\ c.result[1].how = "returned") =>
         /\ c.last_outcome # Absent
         /\ ~TakesAttempt(c.last_outcome[1])

\* Every step of a running call ends the call or uses up one of its
\* attempts, of which there are max_retries.
AttemptUsedOrCallEnded ==
  S2Running =>
    \/ S2Finished'
    \/ /\ s2'[1].attempt = s2[1].attempt + 1
       /\ s2'[1].attempt < s2[1].max_retries

C21_RequestTerminates ==
  /\ []RequestProtocol
  /\ [][AttemptUsedOrCallEnded]_vars

\* A server that answered 429 to every one of three attempts: _request has
\* raised after the third.
C21_Witness ==
  /\ S2Finished
  /\ s2[1].max_retries = 3
  /\ s2[1].requests = 3
  /\ s2[1].last_outcome[1].status = 429
  /\ s2[1].time >= StartTime + 120
  /\ s2[1].result = S2Raised("RequestException")

(***************************************************************************)
(* C22: between two consecutive HTTP requests of one client at least        *)
(* rate_limit_delay seconds pass, also when the earlier of the two ended in *)
(* a transport exception.                                                   *)
(***************************************************************************)
C22_RateLimitBetweenRequests ==
  (s2 # Absent /\ s2[1].gap # Absent) =>
    s2[1].gap[1] >= s2[1].rate_limit_delay

\* Two requests in a row, the earlier one ended in a transport exception.
C22_Witness ==
  /\ s2 # Absent
  /\ s2[1].gap # Absent
  /\ s2[1].after_exception
  /\ s2[1].rate_limit_delay = 3

(***************************************************************************)
(* C23: get_papers_batch never lets a request exception through; a batch    *)
(* answered 403 or 400 gives an empty result for that batch and no per-DOI  *)
(* request; a batch that fails with a transport error is fetched with one   *)
(* get_paper_by_doi per DOI of that batch; the keys of the returned mapping *)
(* are among the requested DOIs, each with the paper of that DOI.           *)
(***************************************************************************)
C23_BatchDegrades ==
  call_result # Absent =>
    LET got == call_result[1]
        requested == { call_args[1].dois[i] :
                         i \in 1..Len(call_args[1].dois) }
    IN
    /\ got.raised # Some("RequestException")
    /\ \A b \in 1..Len(got.batches) :
         LET batch == got.batches[b] IN
         /\ (batch.outcome.kind = "response"
               /\ batch.outcome.status \in {400, 403}) =>
              batch.results = EmptyDict /\ batch.individual = <<>>
         /\ batch.outcome.kind = "RequestException" =>
              batch.individual = batch.dois
    /\ DOMAIN got.results \subseteq requested
    /\ \A d \in DOMAIN got.results : got.results[d] = PaperOf(d)

\* The request of a batch raised, the server holds a DOI of the batch and
\* would answer for it, and the batch came back empty without a per-DOI
\* request.
C23_Witness ==
  /\ call_result # Absent
  /\ \E b \in 1..Len(call_result[1].batches) :
       LET batch == call_result[1].batches[b] IN
       /\ batch.outcome.kind = "RequestException"
       /\ batch.individual = <<>>
       /\ batch.results = EmptyDict
       /\ fetch_individually(batch.dois, call_args[1].server) # EmptyDict

(***************************************************************************)
(* C24: fetch_batch calls on_result exactly once for each input item that   *)
(* has a DOI, with the abstract or None for that DOI, in the parallel path, *)
(* in the sequential path, and when the parallel path fails part-way and    *)
(* the sequential one takes over; the returned mapping holds exactly the    *)
(* DOIs for which on_result received an abstract.                           *)
(***************************************************************************)
\* How many times on_result was called for `doi`.
Deliveries(calls, doi) ==
  Cardinality({ i \in 1..Len(calls) : calls[i].doi = doi })

\* How many items carry `doi`.
ItemsWith(items, doi) ==
  Cardinality({ i \in 1..Len(items) : items[i] = Some(doi) })

C24_OnResultOncePerItem ==
  (scraper # Absent /\ scraper[1].mode = "done") =>
    LET c == scraper[1] IN
    /\ \A doi \in {"d1", "d2"} :
         Deliveries(c.delivered, doi) = ItemsWith(c.items, doi)
    /\ DOMAIN c.results[1] =
         { c.delivered[i].doi : i \in { j \in 1..Len(c.delivered) :
                                         c.delivered[j].abstract # Absent } }

\* The parallel path delivered a result, then failed, and the sequential
\* loop has run to its end.
C24_Witness ==
  /\ scraper # Absent
  /\ scraper[1].mode = "done"
  /\ scraper[1].fell_back
  /\ Len(scraper[1].delivered) > Cardinality(WithDoi(scraper[1].items))

(***************************************************************************)
(* C25: for max_ratio > 0, _limit_preprints returns a sub-list of its input *)
(* in the input's order that holds every non-preprint work, and in every    *)
(* prefix of it the share of arxiv/biorxiv/medrxiv works is at most         *)
(* max_ratio; so what watch shows after _filter_recent, _limit_preprints    *)
(* with 0.3 and the cut to the top N is sorted by score descending and has  *)
(* at most 30% preprints.                                                   *)
(***************************************************************************)
\* `part` takes works of `whole`, in the order of `whole`.
OrderedSubList(part, whole) ==
  /\ \A i \in 1..Len(part) :
       part[i].id \in 1..Len(whole) /\ whole[part[i].id] = part[i]
  /\ \A i, j \in 1..Len(part) : i < j => part[i].id < part[j].id

PreprintsIn(works, n) ==
  Cardinality({ i \in 1..n : is_preprint(works[i]) })

C25_PreprintCap ==
  call_result # Absent =>
    LET input == call_args[1].ranked
        output == call_result[1].works
        percent == call_args[1].max_percent
    IN
    /\ (call_result[1].fn = "limit_preprints" /\ percent > 0) =>
         /\ OrderedSubList(output, input)
         /\ \A i \in 1..Len(input) :
              ~is_preprint(input[i]) =>
                \E j \in 1..Len(output) : output[j] = input[i]
         /\ \A n \in 1..Len(output) :
              PreprintsIn(output, n) * 100 <= percent * n
    /\ call_result[1].fn = "watch" =>
         /\ OrderedSubList(output, input)
         /\ \A i, j \in 1..Len(output) :
              i < j => output[i].score >= output[j].score
         /\ PreprintsIn(output, Len(output)) * 100 <= 30 * Len(output)

\* The cap dropped a preprint and kept another, and watch cut the list to
\* its top.
C25_Witness ==
  /\ call_result # Absent
  /\ call_result[1].fn = "watch"
  /\ call_args[1].top = 2
  /\ Len(call_result[1].works) = 2
  /\ Len(filter_recent(call_args[1].ranked, 7)) >= 4
  /\ \E i \in 1..Len(call_args[1].ranked) :
       /\ is_preprint(call_args[1].ranked[i])
       /\ call_args[1].ranked[i].published = Some(1)
       /\ \A j \in 1..2 : call_result[1].works[j] # call_args[1].ranked[i]

(***************************************************************************)
(* C29: when _limit_preprints drops a preprint it drops every preprint      *)
(* that comes later in its input too: a kept preprint never ranks below a   *)
(* dropped one.                                                             *)
(***************************************************************************)
KeptBy(output, work) == \E j \in 1..Len(output) : output[j] = work

C29_DroppedPreprintsRankLowest ==
  (call_result # Absent /\ call_result[1].fn = "limit_preprints") =>
    LET input == call_args[1].ranked
        output == call_result[1].works
    IN \A i, j \in 1..Len(input) :
         (/\ i < j
          /\ is_preprint(input[i])
          /\ is_preprint(input[j])
          /\ KeptBy(output, input[j])) => KeptBy(output, input[i])

\* The best-ranked work is a preprint and was dropped; a preprint further
\* down was kept.
C29_Witness ==
  /\ call_result # Absent
  /\ call_result[1].fn = "limit_preprints"
  /\ call_args[1].max_percent = 30
  /\ Len(call_args[1].ranked) > 0
  /\ is_preprint(call_args[1].ranked[1])
  /\ ~KeptBy(call_result[1].works, call_args[1].ranked[1])
  /\ \E j \in 1..Len(call_result[1].works) :
       is_preprint(call_result[1].works[j])

\* hash_content gives the same digest each time it is applied to the same
\* parts (the determinism the content hash relies on).
HashDeterministic ==
  (call_result # Absent /\ call_result[1].fn = "hash_content")
    => call_result[1].first = call_result[1].second

\* C26: hash_content is deterministic, and two tuples of parts that differ in
\* a title, abstract or author part have different hashes, so a change of any
\* of these parts makes an embedded item stale.
C26_ChangeChangesHash ==
  /\ HashDeterministic
  /\ (call_result # Absent /\ call_result[1].fn = "change"
      /\ call_args[1].before # call_args[1].after)
       => (call_result[1].first # call_result[1].second /\ call_result[1].stale)

\* C26 failing case: text moves from the end of one non-empty part to the
\* start of the next, and the item is not stale.
C26_Witness ==
  /\ call_result # Absent
  /\ call_result[1].fn = "change"
  /\ \A i \in 1..3 : is_truthy(call_args[1].before[i])
                     /\ is_truthy(call_args[1].after[i])
  /\ call_args[1].before # call_args[1].after
  /\ ~ call_result[1].stale

\* A run can start and does not raise: no run is under way and the store
\* holds an item.
RunnableStore == pc \in {"idle", "done", "failed"} /\ rows # <<>>

\* The embedding columns of every row, in table order.
EmbeddingColumns(table) ==
  [i \in 1..Len(table) |-> <<table[i].key, table[i].embedding,
                             table[i].embedding_hash>>]

\* C27: from every reachable store state run(full=False) leaves each item
\* with the embedding and embedding_hash that run(full=True) leaves, saves
\* the same index, and after either run no item needs an embedding.
C27_IncrementalEqualsFull ==
  RunnableStore =>
    /\ EmbeddingColumns(run_rows(rows, FALSE, now))
         = EmbeddingColumns(run_rows(rows, TRUE, now))
    /\ run_index(rows, FALSE, now) = run_index(rows, TRUE, now)
    /\ count_items_needing_embedding(run_rows(rows, FALSE, now)) = 0
    /\ count_items_needing_embedding(run_rows(rows, TRUE, now)) = 0

\* C27 failing case: an item embedded under a digest was written again with
\* another text and no content_hash; the incremental run skips it, the full
\* run embeds the new text.
C27_Witness ==
  /\ RunnableStore
  /\ \E i \in 1..Len(rows) :
       /\ rows[i].content_hash = None
       /\ rows[i].embedding_hash # None
       /\ rows[i].embedding # EncodeText(rows[i].title)
       /\ run_items_to_embed(rows, FALSE) = <<>>
       /\ run_rows(rows, FALSE, now)[i].embedding
            # run_rows(rows, TRUE, now)[i].embedding

\* The texts ingestion writes.
ItemTitles == { item.title : item \in ItemValues }

\* A row whose non-null embedding_hash equals its content_hash holds the
\* vector of the text that has this digest.
FreshRowsHoldTheirVector ==
  \A i \in 1..Len(rows) :
    (rows[i].embedding_hash # None
     /\ rows[i].embedding_hash = rows[i].content_hash)
      => \A title \in ItemTitles :
           HashOf(title) = rows[i].content_hash
             => rows[i].embedding = EncodeText(title)

\* One iteration of run's set_embedding loop: it adds no row, and changes
\* nothing when the item's row is gone.
SetEmbeddingStep == pc = "store" /\ (next_i' # next_i \/ pc' # pc)

SetEmbeddingAddsNoRow ==
  SetEmbeddingStep =>
    /\ KeysOf(rows') = KeysOf(rows)
    /\ items_to_embed[next_i].key \notin KeysOf(rows) => rows' = rows

\* C28: while upsert_item and remove_items interleave with a running build,
\* an item whose non-null embedding_hash equals its content_hash holds the
\* embedding of the content with that hash, and a set_embedding for a key
\* removed in the meantime does not recreate the item.
C28_PairingUnderInterleaving ==
  []FreshRowsHoldTheirVector /\ [][SetEmbeddingAddsNoRow]_vars

\* C28 case: a build has stored the vector of the text it read for its first
\* item, which was edited after the build read it and is stale, and the
\* build's next item was removed from the store.
C28_Witness ==
  /\ pc = "store"
  /\ next_i = 2
  /\ Len(items_to_embed) = 2
  /\ items_to_embed[2].key \notin KeysOf(rows)
  /\ \E i \in 1..Len(rows) :
       /\ rows[i].key = items_to_embed[1].key
       /\ rows[i].embedding = EncodeText(items_to_embed[1].title)
       /\ rows[i].embedding_hash = items_to_embed[1].content_hash
       /\ rows[i].embedding_hash # None
       /\ rows[i].content_hash # None
       /\ rows[i].content_hash # rows[i].embedding_hash

\* A complete() call whose attempts all failed with retryable errors and
\* which has raised.
PersistentFailure ==
  /\ retry_call # Absent
  /\ retry_call[1].result # Absent
  /\ retry_call[1].invoked # <<>>
  /\ \A i \in 1..Len(retry_call[1].invoked) : Retryable(retry_call[1].invoked[i])

\* C30: a client built by from_config makes at most the configured
\* retry.max_attempts attempts in one complete() call, exactly that many when
\* every attempt fails with a retryable error, and each sleep between
\* attempts is the configured retry.backoff_factor times the one before.
C30_ConfiguredRetryHonoured ==
  (call_args # Absent /\ retry_call # Absent) =>
    LET client == call_args[1]
        c == retry_call[1]
    IN
    /\ Len(c.invoked) <= client.max_retries
    /\ PersistentFailure => Len(c.invoked) = client.max_retries
    /\ \A i \in 2..Len(c.slept) :
         c.slept[i] = client.backoff_factor * c.slept[i - 1]

\* C30 failing case: the client was configured with two attempts and a
\* backoff factor of 3; complete() has made three and doubled the sleep.
C30_Witness ==
  /\ call_args # Absent
  /\ call_args[1].max_retries = 2
  /\ call_args[1].backoff_factor = 3
  /\ PersistentFailure
  /\ Len(retry_call[1].invoked) = 3
  /\ retry_call[1].slept = <<1, 2>>

TypeOK ==
  /\ now \in 0..MaxClock
  /\ \A i \in 1..Len(rows) : rows[i].key \in Keys /\ rows[i].updated_at <= now
  /\ Cardinality(KeysOf(rows)) = Len(rows)
  /\ settings \in ScoringChoices
  /\ Len(candidates) <= MaxCandidates
  /\ Len(ranked) <= Len(candidates)
  /\ ranked_by \in {"none", "work", "profile", "raised"}
  /\ TextsOf(rank_encoded) \cup provider_seen
       \subseteq { candidate_content(c) : c \in CandidateWorks }
====
